---- MODULE Spec2Model ----
(***************************************************************************)
(* Task supervision core of ffmpeg-transcoder                              *)
(* (src-tauri/src/handlers/tasks): the keyed task store, the task handle   *)
(* with its state lock, the state nodes Idle / Running / Pausing /         *)
(* Stopped / Finished / Errored, the per-episode watchdog and its two      *)
(* stream captures, and the subprocess as environment.                     *)
(***************************************************************************)
EXTENDS Integers, Sequences, FiniteSets, TLC

\* ------------------------------------------------------------------ bounds
\* task objects ever created by TaskStore::start
MaxTasks == 2
\* store operations the user interface issues
MaxOps == 3
\* tasks whose spawn of ffmpeg succeeds; for a start after these the
\* spawn (or the probing before it) fails
MaxSpawns == 1
\* progress lines the subprocess writes to its standard output
MaxLines == 2
\* lines the subprocess writes to its standard error
MaxErrLines == 1

\* the user interface issues its store operations one after the other
Users == {1}
\* ids the caller chooses
Ids == {"T1"}

\* Running episodes of one task: Idle->Running, then one more for every
\* pause-resume pair the user can still issue after the start
MaxEpisodes == 1 + (MaxOps - 1) \div 2

Tasks == 1..MaxTasks
Episodes == 1..MaxEpisodes

\* a call of Task::finish / Task::error spawned by the watchdog of episode e of
\* task t runs as its own detached tokio task
WCall(t, e) == Cardinality(Users) + (t - 1) * MaxEpisodes + e
CallIds == 1..(Cardinality(Users) + MaxTasks * MaxEpisodes)

NoTask == 0
Free == 0

VARIABLES
    windows,    \* cfg(windows): which of the two builds runs
    store,      \* TaskStore.store: id -> task object (NoTask: no entry)
    storeLock,  \* holder of the store mutex (Free or a call)
    nTasks,     \* task objects created so far
    slot,       \* Task.state: the Option<Box<dyn TaskState>> of each task
    stateLock,  \* holder of each task's state mutex
    proc,       \* the subprocess: none / alive / exitOk / exitFail / killed
    reaped,     \* Child::wait has returned for the subprocess
    streams,    \* the Child still holds stdin, stdout and stderr
    procHeld,   \* the subprocess mutex is held by the watchdog
    outW,       \* progress lines written by the subprocess
    outEnd,     \* the last progress line written is progress=end
    outR,       \* progress lines taken out of the pipe by a capture
    outBuf,     \* progress lines held in the BufReader of the capture
    errW,       \* diagnostic lines written
    errR,       \* diagnostic lines consumed
    ep,         \* number of the current (latest) Running episode
    cancelled,  \* episodes whose two tokens are cancelled
    wd,         \* the watchdog of the latest episode
    capOut,     \* the stdout capture: position or result
    capErr,     \* the stderr capture: position or result
    capEp,      \* the episode whose tokens the captures hold
    calls,      \* store operations of the user and calls spawned by watchdogs
    nOps,       \* store operations issued
    events,     \* TaskMessage events emitted for each task, in order
    recv,       \* the kinds of call after start each task has received
    nTrig,      \* how many stop / finish / error calls each task has received
    told,       \* the control signal last delivered to each subprocess
    fnArg,      \* the argument of a function of the program under evaluation
    fnRet       \* what the function returned for it

vars == <<windows, store, storeLock, nTasks, slot, stateLock, proc, reaped,
          streams, procHeld, outW, outEnd, outR, outBuf, errW, errR, ep,
          cancelled,
          wd, capOut, capErr, capEp, calls, nOps, events, recv, nTrig,
          told, fnArg, fnRet>>

\* the evaluation of a function apart from the task store
fnVars == <<fnArg, fnRet>>
taskVars == <<slot, stateLock, proc, reaped, streams, procHeld, ep,
              cancelled, wd>>
pipeVars == <<outW, outEnd, outR, outBuf, errW, errR>>
capVars == <<capOut, capErr, capEp>>
storeVars == <<store, storeLock, nTasks>>

\* ------------------------------------------------------------- state nodes
Node(c, r) == [code |-> c, reason |-> r]
\* the slot between state.take() and the store of the successor
NoNode == Node("None", "")
Idle == Node("Idle", "")
Running == Node("Running", "")
Pausing == Node("Pausing", "")
Stopped == Node("Stopped", "")
Finished == Node("Finished", "")
Errored(r) == Node("Errored", r)

TerminalCodes == {"Stopped", "Finished", "Errored"}
NonTerminalCodes == {"Idle", "Running", "Pausing"}

\* a call: the method, the task it runs on, its position, the reason it
\* carries (Task::error), its result, and the node its transition took
NoCall ==
    [kind |-> "none", t |-> NoTask, pc |-> "idle", reason |-> "", res |-> "",
     from |-> ""]

CapOutDone == {"okfalse", "oktrue", "errUnexpected", "errInternal", "panic"}
\* Ok(()) of the stderr capture: after a cancellation or the end of the
\* stream ("ok"), or after a failed read ("okfail")
CapErrOk == {"ok", "okfail"}
CapErrDone == CapErrOk \cup {"errRuntime"}
ProcExited == {"exitOk", "exitFail", "killed"}

RunningMsg == [kind |-> "Running", reason |-> ""]
FinishedMsg == [kind |-> "Finished", reason |-> ""]
ErroredMsg(r) == [kind |-> "Errored", reason |-> r]

\* no function is under evaluation
NoValue == [none |-> TRUE]

\* the store and its tasks after TaskStore::new
InitStore ==
    /\ windows \in BOOLEAN
    /\ store = [i \in Ids |-> NoTask]
    /\ storeLock = Free
    /\ nTasks = 0
    /\ slot = [t \in Tasks |-> NoNode]
    /\ stateLock = [t \in Tasks |-> Free]
    /\ proc = [t \in Tasks |-> "none"]
    /\ reaped = [t \in Tasks |-> FALSE]
    /\ streams = [t \in Tasks |-> FALSE]
    /\ procHeld = [t \in Tasks |-> FALSE]
    /\ outW = [t \in Tasks |-> 0]
    /\ outEnd = [t \in Tasks |-> FALSE]
    /\ outR = [t \in Tasks |-> 0]
    /\ outBuf = [t \in Tasks |-> 0]
    /\ errW = [t \in Tasks |-> 0]
    /\ errR = [t \in Tasks |-> 0]
    /\ ep = [t \in Tasks |-> 0]
    /\ cancelled = [t \in Tasks |-> {}]
    /\ wd = [t \in Tasks |-> "none"]
    /\ capOut = [t \in Tasks |-> "none"]
    /\ capErr = [t \in Tasks |-> "none"]
    /\ capEp = [t \in Tasks |-> 0]
    /\ calls = [c \in CallIds |-> NoCall]
    /\ nOps = 0
    /\ events = [t \in Tasks |-> <<>>]
    /\ recv = [t \in Tasks |-> {}]
    /\ nTrig = [t \in Tasks |-> 0]
    /\ told = [t \in Tasks |-> "none"]

Init ==
    /\ InitStore
    /\ fnArg = NoValue
    /\ fnRet = NoValue

\* ---------------------------------------------------------- the subprocess
\* the subprocess writes one more line to its standard output: a
\* progress=continue line, or the closing progress=end line
ProcWriteOut(t) ==
    /\ proc[t] = "alive"
    /\ outW[t] < MaxLines
    /\ ~outEnd[t]
    /\ \E end \in BOOLEAN :
        /\ outW' = [outW EXCEPT ![t] = @ + 1]
        /\ outEnd' = [outEnd EXCEPT ![t] = end]
    /\ UNCHANGED <<fnVars, told, windows, storeVars, taskVars, outR, outBuf, errW, errR, capVars,
                   calls, nOps, events, recv, nTrig>>

\* the subprocess writes a non-empty line to its standard error
ProcWriteErr(t) ==
    /\ proc[t] = "alive"
    /\ errW[t] < MaxErrLines
    /\ errW' = [errW EXCEPT ![t] = @ + 1]
    /\ UNCHANGED <<fnVars, told, windows, storeVars, taskVars, outW, outEnd, outR, outBuf, errR,
                   capVars, calls, nOps, events, recv, nTrig>>

\* the subprocess exits by itself, with success or with failure; its ends
\* of the pipes close
ProcExit(t) ==
    /\ proc[t] = "alive"
    /\ \E st \in {"exitOk", "exitFail"} : proc' = [proc EXCEPT ![t] = st]
    /\ UNCHANGED <<fnVars, told, windows, storeVars, slot, stateLock, reaped, streams,
                   procHeld, ep, cancelled, wd, pipeVars, capVars, calls,
                   nOps, events, recv, nTrig>>

\* -------------------------------------------------- transition functions
\* What one step of a transition function does: the node it leaves in the
\* slot, where the calling Task method continues, whether the state guard
\* stays held, and its effects on tokens, subprocess and watchdog.
Eff(node, next, hold) ==
    [node |-> node, next |-> next, hold |-> hold, cancel |-> FALSE,
     kill |-> FALSE, spawn |-> FALSE, watch |-> FALSE, panic |-> FALSE,
     signal |-> "none"]

PanicEff == [Eff(NoNode, "panicked", FALSE) EXCEPT !.panic = TRUE]

\* where the Task method goes on once the transition returned
AfterTransition(op) ==
    IF op \in {"stop", "finish", "error"} THEN "r_lock" ELSE "done"

\* Task::error binds the guard to a local that lives to the end of the
\* method; the to_next_state! methods drop it when they return
HoldsGuard(op) == op = "error"

Ret(op, node) == Eff(node, AfterTransition(op), HoldsGuard(op))

\* start_kill()? then wait().await
KillEff(op, okNode, env) ==
    IF env.killOk
    THEN [Ret(op, okNode) EXCEPT !.kill = TRUE]
    ELSE Ret(op, Errored("KillFailed"))

Idle_start(env) ==
    IF env.start = "ok"
    THEN [Ret("start", Running) EXCEPT !.spawn = TRUE, !.watch = TRUE]
    ELSE Ret("start", Errored(env.start))

Idle_stop == Ret("stop", Stopped)

Idle_error(reason) == Ret("error", Errored(reason))

\* a transition out of Running that cancels the tokens and returns Stopped
\* without awaiting the watchdog handle
Running_cancel_NoJoin == [Ret("stop", Stopped) EXCEPT !.cancel = TRUE]

\* Running::pause / stop / finish (and error, through stop): cancel both
\* tokens, then await the watchdog handle
Running_cancel == [Eff(NoNode, "join", TRUE) EXCEPT !.cancel = TRUE]

\* Running::pause after the watchdog handle returned
Running_pause(joinOk, win, hasStreams, env) ==
    IF ~joinOk THEN Ret("pause", Errored("JoinError"))
    ELSE IF win /\ ~hasStreams THEN PanicEff
    ELSE IF win /\ ~env.writeOk THEN Ret("pause", Errored("WriteFailed"))
    ELSE IF win THEN [Ret("pause", Pausing) EXCEPT !.signal = "pause"]
    ELSE Ret("pause", Pausing)

\* Running::stop after the watchdog handle returned
Running_stop(op, joinOk, env) ==
    IF ~joinOk THEN Ret(op, Errored("JoinError"))
    ELSE KillEff(op, Stopped, env)

\* Running::finish after the watchdog handle returned
Running_finish(joinOk) ==
    IF ~joinOk THEN Ret("finish", Errored("JoinError"))
    ELSE Ret("finish", Finished)

\* Running::error: stop, then Errored{reason} if that gave Stopped
Running_error(reason, joinOk, env) ==
    LET stopped == Running_stop("error", joinOk, env) IN
    IF stopped.node.code = "Stopped"
    THEN [stopped EXCEPT !.node = Errored(reason)]
    ELSE stopped

Pausing_resume(win, hasStreams, env) ==
    IF win /\ ~hasStreams THEN PanicEff
    ELSE IF win /\ ~env.writeOk THEN Ret("resume", Errored("WriteFailed"))
    ELSE IF win THEN [Ret("resume", Running) EXCEPT !.watch = TRUE, !.signal = "resume"]
    ELSE [Ret("resume", Running) EXCEPT !.watch = TRUE]

Pausing_stop(op, env) == KillEff(op, Stopped, env)

Pausing_error(reason, env) ==
    LET stopped == Pausing_stop("error", env) IN
    IF stopped.node.code = "Stopped"
    THEN [stopped EXCEPT !.node = Errored(reason)]
    ELSE stopped

\* the dispatch with an error() of the terminal nodes that stores the new
\* reason instead of returning self
FirstPart_ErrorOverwrites(op, node, reason, win, hasStreams, env) ==
    CASE node.code = "None" -> PanicEff
      [] node.code = "Idle" /\ op = "start" -> Idle_start(env)
      [] node.code = "Idle" /\ op = "stop" -> Idle_stop
      [] node.code = "Idle" /\ op = "error" -> Idle_error(reason)
      [] node.code = "Running" /\ op \in {"pause", "stop", "finish", "error"} ->
            Running_cancel
      [] node.code = "Pausing" /\ op = "resume" ->
            Pausing_resume(win, hasStreams, env)
      [] node.code = "Pausing" /\ op = "stop" -> Pausing_stop(op, env)
      [] node.code = "Pausing" /\ op = "error" -> Pausing_error(reason, env)
      [] node.code \in TerminalCodes /\ op = "error" ->
            Ret(op, Errored(reason))
      [] OTHER -> Ret(op, node)

\* the dispatch with a Pausing::finish that returns Finished
FirstPart_PausingFinishes(op, node, reason, win, hasStreams, env) ==
    CASE node.code = "None" -> PanicEff
      [] node.code = "Idle" /\ op = "start" -> Idle_start(env)
      [] node.code = "Idle" /\ op = "stop" -> Idle_stop
      [] node.code = "Idle" /\ op = "error" -> Idle_error(reason)
      [] node.code = "Running" /\ op \in {"pause", "stop", "finish", "error"} ->
            Running_cancel
      [] node.code = "Pausing" /\ op = "resume" ->
            Pausing_resume(win, hasStreams, env)
      [] node.code = "Pausing" /\ op = "stop" -> Pausing_stop(op, env)
      [] node.code = "Pausing" /\ op = "error" -> Pausing_error(reason, env)
      [] node.code = "Pausing" /\ op = "finish" -> Ret(op, Finished)
      [] OTHER -> Ret(op, node)

\* the dispatch with a Running::pause that cancels the tokens and returns
\* Pausing without awaiting the watchdog handle
FirstPart_PauseNoJoin(op, node, reason, win, hasStreams, env) ==
    CASE node.code = "None" -> PanicEff
      [] node.code = "Idle" /\ op = "start" -> Idle_start(env)
      [] node.code = "Idle" /\ op = "stop" -> Idle_stop
      [] node.code = "Idle" /\ op = "error" -> Idle_error(reason)
      [] node.code = "Running" /\ op = "pause" ->
            [Ret("pause", Pausing) EXCEPT !.cancel = TRUE]
      [] node.code = "Running" /\ op \in {"stop", "finish", "error"} ->
            Running_cancel
      [] node.code = "Pausing" /\ op = "resume" ->
            Pausing_resume(win, hasStreams, env)
      [] node.code = "Pausing" /\ op = "stop" -> Pausing_stop(op, env)
      [] node.code = "Pausing" /\ op = "error" -> Pausing_error(reason, env)
      [] OTHER -> Ret(op, node)

\* The transition function up to its first await of the watchdog handle:
\* state.take().unwrap().<op>(task), dispatched on the node in the slot.
FirstPart(op, node, reason, win, hasStreams, env) ==
    CASE node.code = "None" -> PanicEff
      [] node.code = "Idle" /\ op = "start" -> Idle_start(env)
      [] node.code = "Idle" /\ op = "stop" -> Idle_stop
      [] node.code = "Idle" /\ op = "error" -> Idle_error(reason)
      [] node.code = "Running" /\ op \in {"pause", "stop", "finish", "error"} ->
            Running_cancel
      [] node.code = "Pausing" /\ op = "resume" ->
            Pausing_resume(win, hasStreams, env)
      [] node.code = "Pausing" /\ op = "stop" -> Pausing_stop(op, env)
      [] node.code = "Pausing" /\ op = "error" -> Pausing_error(reason, env)
      [] OTHER -> Ret(op, node)

\* The rest of a transition out of Running, once the watchdog handle is done.
SecondPart(op, reason, joinOk, win, hasStreams, env) ==
    CASE op = "pause" -> Running_pause(joinOk, win, hasStreams, env)
      [] op = "stop" -> Running_stop(op, joinOk, env)
      [] op = "finish" -> Running_finish(joinOk)
      [] op = "error" -> Running_error(reason, joinOk, env)

\* ------------------------------------------------------- the Task methods
\* What the environment decides inside a transition: whether the spawn of
\* ffmpeg (and the probing before it) succeeds, whether the write of the
\* control byte succeeds, and whether start_kill succeeds.  start_kill on a
\* child whose wait() already returned fails or succeeds depending on the
\* runtime version; on any other child it succeeds.
Spawned == Cardinality({t \in Tasks : proc[t] # "none"})

EnvChoices(t, op, node) ==
    [start : IF node.code = "Idle" /\ op = "start"
                THEN (IF Spawned < MaxSpawns THEN {"ok"} ELSE {})
                     \cup {"FFmpegNotFound"}
                ELSE {"ok"},
     writeOk : IF windows /\ ((node.code = "None" /\ op = "pause")
                              \/ (node.code = "Pausing" /\ op = "resume"))
                THEN BOOLEAN ELSE {TRUE},
     killOk : IF reaped[t] /\ op \in {"stop", "error"}
                   /\ node.code \in {"None", "Pausing"}
                THEN BOOLEAN ELSE {TRUE}]

\* Apply with the tokens of the first episode kept for every later one
Apply_ReuseTokens(c, t, e) ==
    /\ slot' = [slot EXCEPT ![t] = e.node]
    /\ stateLock' = [stateLock EXCEPT ![t] = IF e.hold THEN c ELSE Free]
    /\ calls' = [calls EXCEPT ![c].pc = e.next,
                              ![c].res = IF e.next = "done" THEN "Ok" ELSE @,
                              ![c].from = IF @ = "" THEN slot[t].code ELSE @]
    /\ cancelled' = [cancelled EXCEPT
                        ![t] = IF e.cancel THEN @ \cup {ep[t]} ELSE @]
    /\ proc' = [proc EXCEPT ![t] = IF e.spawn THEN "alive"
                                   ELSE IF e.kill /\ @ = "alive" THEN "killed"
                                   ELSE @]
    /\ reaped' = [reaped EXCEPT ![t] = IF e.kill THEN TRUE ELSE @]
    /\ streams' = [streams EXCEPT ![t] = IF e.spawn THEN TRUE ELSE @]
    /\ ep' = [ep EXCEPT ![t] = IF e.watch /\ @ = 0 THEN 1 ELSE @]
    /\ wd' = [wd EXCEPT ![t] = IF e.watch THEN "start" ELSE @]
    /\ told' = [told EXCEPT ![t] = IF e.signal # "none" THEN e.signal ELSE @]

\* The effects of one step of a transition function on the task.
Apply(c, t, e) ==
    /\ slot' = [slot EXCEPT ![t] = e.node]
    /\ stateLock' = [stateLock EXCEPT ![t] = IF e.hold THEN c ELSE Free]
    /\ calls' = [calls EXCEPT ![c].pc = e.next,
                              ![c].res = IF e.next = "done" THEN "Ok" ELSE @,
                              ![c].from = IF @ = "" THEN slot[t].code ELSE @]
    /\ cancelled' = [cancelled EXCEPT
                        ![t] = IF e.cancel THEN @ \cup {ep[t]} ELSE @]
    /\ proc' = [proc EXCEPT ![t] = IF e.spawn THEN "alive"
                                   ELSE IF e.kill /\ @ = "alive" THEN "killed"
                                   ELSE @]
    /\ reaped' = [reaped EXCEPT ![t] = IF e.kill THEN TRUE ELSE @]
    /\ streams' = [streams EXCEPT ![t] = IF e.spawn THEN TRUE ELSE @]
    /\ ep' = [ep EXCEPT ![t] = IF e.watch THEN @ + 1 ELSE @]
    /\ wd' = [wd EXCEPT ![t] = IF e.watch THEN "start" ELSE @]
    /\ told' = [told EXCEPT ![t] = IF e.signal # "none" THEN e.signal ELSE @]

\* to_next_state! / Task::error: lock the state, take() the node and run
\* the transition function up to its first await
Transition(c) ==
    LET t == calls[c].t
        op == calls[c].kind
    IN  /\ calls[c].pc = "t_lock"
        /\ stateLock[t] = Free
        /\ \E env \in EnvChoices(t, op, slot[t]) :
              Apply(c, t, FirstPart(op, slot[t], calls[c].reason, windows,
                                    streams[t], env))
        /\ UNCHANGED <<fnVars, windows, storeVars, procHeld, pipeVars, capVars, nOps,
                       events, recv, nTrig>>

\* a transition out of Running goes on once the watchdog handle is done
Joined(c) ==
    LET t == calls[c].t
        op == calls[c].kind
    IN  /\ calls[c].pc = "join"
        /\ wd[t] \in {"done", "panicked"}
        /\ \E env \in EnvChoices(t, op, slot[t]) :
              Apply(c, t, SecondPart(op, calls[c].reason, wd[t] = "done",
                                     windows, streams[t], env))
        /\ UNCHANGED <<fnVars, windows, storeVars, procHeld, pipeVars, capVars, nOps,
                       events, recv, nTrig>>

\* Task::remove: lock the store ...
RemoveLock(c) ==
    /\ calls[c].pc = "r_lock"
    /\ storeLock = Free
    /\ storeLock' = c
    /\ calls' = [calls EXCEPT ![c].pc = "r_rm"]
    /\ UNCHANGED <<fnVars, told, windows, store, nTasks, taskVars, pipeVars, capVars, nOps,
                   events, recv, nTrig>>

\* what Task::remove leaves of the store: the entry under the task's id is
\* removed, whichever task it holds
RemoveEntry(st, id, t) == [st EXCEPT ![id] = NoTask]

\* the id of every task (all tasks of the model are started under one id)
IdOf(t) == CHOOSE i \in Ids : TRUE

\* does the Task method emit a terminal event after remove()?
EmitsAfterRemove(op) == op \in {"finish", "error"}

\* ... remove the entry and unlock
RemoveBody(c) ==
    LET t == calls[c].t
        op == calls[c].kind
    IN  /\ calls[c].pc = "r_rm"
        /\ store' = RemoveEntry(store, IdOf(t), t)
        /\ storeLock' = Free
        /\ calls' = [calls EXCEPT
                        ![c].pc = IF EmitsAfterRemove(op) THEN "emit" ELSE "done",
                        ![c].res = IF EmitsAfterRemove(op) THEN @ ELSE "Ok"]
        /\ UNCHANGED <<fnVars, told, windows, nTasks, taskVars, pipeVars, capVars, nOps,
                       events, recv, nTrig>>

\* Task::finish and Task::error with their events exchanged
TerminalMsg_Swapped(op, reason) ==
    IF op = "finish" THEN ErroredMsg(reason) ELSE FinishedMsg

\* the terminal event Task::finish / Task::error sends
TerminalMsg(op, reason) ==
    IF op = "finish" THEN FinishedMsg ELSE ErroredMsg(reason)

\* Task::finish / Task::error: send_message, then return (Task::error
\* drops the state guard here)
Emit(c) ==
    LET t == calls[c].t
        op == calls[c].kind
    IN  /\ calls[c].pc = "emit"
        /\ events' = [events EXCEPT
                         ![t] = Append(@, TerminalMsg(op, calls[c].reason))]
        /\ stateLock' = [stateLock EXCEPT
                            ![t] = IF @ = c THEN Free ELSE @]
        /\ calls' = [calls EXCEPT ![c].pc = "done", ![c].res = "Ok"]
        /\ UNCHANGED <<fnVars, told, windows, storeVars, slot, proc, reaped, streams,
                       procHeld, ep, cancelled, wd, pipeVars, capVars, nOps,
                       recv, nTrig>>

\* ------------------------------------------------------------ the store
\* the user interface invokes TaskStore::start / stop / pause / resume
Invoke(u, op) ==
    /\ calls[u].pc \in {"idle", "done", "panicked"}
    /\ nOps < MaxOps
    /\ op = "start" => nTasks < MaxTasks
    /\ nOps' = nOps + 1
    /\ calls' = [calls EXCEPT ![u] = [kind |-> op, t |-> NoTask,
                                      pc |-> "s_lock", reason |-> "",
                                      res |-> "", from |-> ""]]
    /\ UNCHANGED <<fnVars, told, windows, storeVars, taskVars, pipeVars, capVars, events,
                   recv, nTrig>>

\* self.store.lock().await
StoreLock(u) ==
    /\ calls[u].pc = "s_lock"
    /\ storeLock = Free
    /\ storeLock' = u
    /\ calls' = [calls EXCEPT ![u].pc = "s_body"]
    /\ UNCHANGED <<fnVars, told, windows, store, nTasks, taskVars, pipeVars, capVars, nOps,
                   events, recv, nTrig>>

\* TaskStore::start without the contains_key check: the new task replaces
\* the entry
StoreStart_Overwrite(u) ==
    LET id == CHOOSE i \in Ids : TRUE
        t == nTasks + 1
    IN  /\ calls[u].pc = "s_body"
        /\ calls[u].kind = "start"
        /\ storeLock' = Free
        /\ store' = [store EXCEPT ![id] = t]
        /\ nTasks' = t
        /\ slot' = [slot EXCEPT ![t] = Idle]
        /\ calls' = [calls EXCEPT ![u].pc = "t_lock", ![u].t = t]
        /\ UNCHANGED <<fnVars, told, windows, stateLock, proc, reaped, streams, procHeld,
                       ep, cancelled, wd, pipeVars, capVars, nOps, events,
                       recv, nTrig>>

\* TaskStore::start under the store lock: reject a present key, else
\* insert a new Idle task; drop the lock; then task.start()
StoreStart(u) ==
    LET id == CHOOSE i \in Ids : TRUE
        t == nTasks + 1
    IN  /\ calls[u].pc = "s_body"
        /\ calls[u].kind = "start"
        /\ storeLock' = Free
        /\ IF store[id] # NoTask
           THEN /\ calls' = [calls EXCEPT ![u].pc = "done",
                                          ![u].res = "TaskAlreadyExists"]
                /\ UNCHANGED <<store, nTasks, slot>>
           ELSE /\ store' = [store EXCEPT ![id] = t]
                /\ nTasks' = t
                /\ slot' = [slot EXCEPT ![t] = Idle]
                /\ calls' = [calls EXCEPT ![u].pc = "t_lock", ![u].t = t]
        /\ UNCHANGED <<fnVars, told, windows, stateLock, proc, reaped, streams, procHeld,
                       ep, cancelled, wd, pipeVars, capVars, nOps, events,
                       recv, nTrig>>

\* operations! without drop(store): the guard is still held when
\* task.<op>() is called
StoreOp_KeepLock(u) ==
    LET id == CHOOSE i \in Ids : TRUE
        t == store[id]
        op == calls[u].kind
    IN  /\ calls[u].pc = "s_body"
        /\ op \in {"stop", "pause", "resume"}
        /\ IF t = NoTask
           THEN /\ calls' = [calls EXCEPT ![u].pc = "done",
                                          ![u].res = "TaskNotFound"]
                /\ storeLock' = Free
                /\ UNCHANGED <<recv, nTrig>>
           ELSE /\ calls' = [calls EXCEPT ![u].pc = "t_lock", ![u].t = t]
                /\ UNCHANGED storeLock
                /\ recv' = [recv EXCEPT ![t] = @ \cup {op}]
                /\ nTrig' = [nTrig EXCEPT
                                ![t] = IF op = "stop" THEN @ + 1 ELSE @]
        /\ UNCHANGED <<fnVars, told, windows, store, nTasks, taskVars, pipeVars, capVars,
                       nOps, events>>

\* operations! falling back, for an id that is not a key, on the task
\* created last
StoreOp_LastTask(u) ==
    LET id == CHOOSE i \in Ids : TRUE
        t == IF store[id] = NoTask THEN nTasks ELSE store[id]
        op == calls[u].kind
    IN  /\ calls[u].pc = "s_body"
        /\ op \in {"stop", "pause", "resume"}
        /\ storeLock' = Free
        /\ IF t = NoTask
           THEN /\ calls' = [calls EXCEPT ![u].pc = "done",
                                          ![u].res = "TaskNotFound"]
                /\ UNCHANGED <<recv, nTrig>>
           ELSE /\ calls' = [calls EXCEPT ![u].pc = "t_lock", ![u].t = t]
                /\ recv' = [recv EXCEPT ![t] = @ \cup {op}]
                /\ nTrig' = [nTrig EXCEPT
                                ![t] = IF op = "stop" THEN @ + 1 ELSE @]
        /\ UNCHANGED <<fnVars, told, windows, store, nTasks, taskVars, pipeVars, capVars,
                       nOps, events>>

\* operations!: stop / pause / resume under the store lock: look the id
\* up, clone the task, drop the lock; then task.<op>()
StoreOp(u) ==
    LET id == CHOOSE i \in Ids : TRUE
        t == store[id]
        op == calls[u].kind
    IN  /\ calls[u].pc = "s_body"
        /\ op \in {"stop", "pause", "resume"}
        /\ storeLock' = Free
        /\ IF t = NoTask
           THEN /\ calls' = [calls EXCEPT ![u].pc = "done",
                                          ![u].res = "TaskNotFound"]
                /\ UNCHANGED <<recv, nTrig>>
           ELSE /\ calls' = [calls EXCEPT ![u].pc = "t_lock", ![u].t = t]
                /\ recv' = [recv EXCEPT ![t] = @ \cup {op}]
                /\ nTrig' = [nTrig EXCEPT
                                ![t] = IF op = "stop" THEN @ + 1 ELSE @]
        /\ UNCHANGED <<fnVars, told, windows, store, nTasks, taskVars, pipeVars, capVars,
                       nOps, events>>

\* ----------------------------------------------------------- the captures
\* reader.into_inner(): the capture gives the stream back and what its
\* BufReader still holds goes with the reader
IntoInner(t) == outBuf' = [outBuf EXCEPT ![t] = 0]

\* the number, in the order written, of the progress line read_line
\* returns next
NextLine(t) == outR[t] - outBuf[t] + 1
NextLineIsEnd(t) == outEnd[t] /\ NextLine(t) = outW[t]

\* stdout capture, top of its loop: lock the state for the length of the
\* check; leave with Ok(false) unless the task is Running
CapOutCheck(t) ==
    /\ capOut[t] = "check"
    /\ stateLock[t] = Free
    /\ capOut' = [capOut EXCEPT
                     ![t] = CASE slot[t].code = "None" -> "panic"
                              [] slot[t].code = "Running" -> "select"
                              [] OTHER -> "okfalse"]
    /\ IF slot[t].code \in {"None", "Running"}
       THEN UNCHANGED outBuf
       ELSE IntoInner(t)
    /\ UNCHANGED <<fnVars, told, windows, storeVars, taskVars, outW, outEnd, outR, errW,
                   errR, capErr, capEp, calls, nOps, events, recv, nTrig>>

\* stdout capture, select!: its token is cancelled
CapOutCancelled(t) ==
    /\ capOut[t] = "select"
    /\ capEp[t] \in cancelled[t]
    /\ capOut' = [capOut EXCEPT ![t] = "okfalse"]
    /\ IntoInner(t)
    /\ UNCHANGED <<fnVars, told, windows, storeVars, taskVars, outW, outEnd, outR, errW,
                   errR, capErr, capEp, calls, nOps, events, recv, nTrig>>

\* stdout capture, select!: read_line returns a progress line, out of the
\* buffer of the BufReader or, when that is empty, after a read that
\* takes one or more of the lines in the pipe into the buffer; the Running
\* event is emitted, and progress=end ends the capture with Ok(true)
CapOutRead(t) ==
    /\ capOut[t] = "select"
    /\ \E k \in IF outBuf[t] > 0 THEN {0} ELSE 1..(outW[t] - outR[t]) :
          /\ outR' = [outR EXCEPT ![t] = @ + k]
          /\ outBuf' = [outBuf EXCEPT ![t] = @ + k - 1]
    /\ events' = [events EXCEPT ![t] = Append(@, RunningMsg)]
    /\ capOut' = [capOut EXCEPT
                     ![t] = IF NextLineIsEnd(t) THEN "oktrue" ELSE "check"]
    /\ UNCHANGED <<fnVars, told, windows, storeVars, taskVars, outW, outEnd, errW, errR,
                   capErr, capEp, calls, nOps, recv, nTrig>>

\* stdout capture, select!: read_line returns 0 bytes
CapOutEof(t) ==
    /\ capOut[t] = "select"
    /\ outBuf[t] = 0
    /\ outR[t] = outW[t]
    /\ proc[t] \in ProcExited
    /\ capOut' = [capOut EXCEPT ![t] = "errUnexpected"]
    /\ UNCHANGED <<fnVars, told, windows, storeVars, taskVars, pipeVars, capErr, capEp,
                   calls, nOps, events, recv, nTrig>>

\* stdout capture: read_line fails with an I/O error, or emit_all fails
CapOutFail(t) ==
    /\ capOut[t] = "select"
    /\ capOut' = [capOut EXCEPT ![t] = "errInternal"]
    /\ IntoInner(t)
    /\ UNCHANGED <<fnVars, told, windows, storeVars, taskVars, outW, outEnd, outR, errW,
                   errR, capErr, capEp, calls, nOps, events, recv, nTrig>>

\* stderr capture, select!: its token is cancelled
CapErrCancelled(t) ==
    /\ capErr[t] = "read"
    /\ capEp[t] \in cancelled[t]
    /\ capErr' = [capErr EXCEPT ![t] = "ok"]
    /\ UNCHANGED <<fnVars, told, windows, storeVars, taskVars, pipeVars, capOut, capEp,
                   calls, nOps, events, recv, nTrig>>

\* stderr capture: a line was read: Err(FFmpegRuntimeError(line))
CapErrRead(t) ==
    /\ capErr[t] = "read"
    /\ errR[t] < errW[t]
    /\ errR' = [errR EXCEPT ![t] = @ + 1]
    /\ capErr' = [capErr EXCEPT ![t] = "errRuntime"]
    /\ UNCHANGED <<fnVars, told, windows, storeVars, taskVars, outW, outEnd, outR, outBuf,
                   errW, capOut, capEp, calls, nOps, events, recv, nTrig>>

\* stderr capture: read_line returns 0 bytes: Ok(())
CapErrEof(t) ==
    /\ capErr[t] = "read"
    /\ errR[t] = errW[t]
    /\ proc[t] \in ProcExited
    /\ capErr' = [capErr EXCEPT ![t] = "ok"]
    /\ UNCHANGED <<fnVars, told, windows, storeVars, taskVars, pipeVars, capOut, capEp,
                   calls, nOps, events, recv, nTrig>>

\* stderr capture: read_line fails: Ok(()) as well
CapErrFail(t) ==
    /\ capErr[t] = "read"
    /\ capErr' = [capErr EXCEPT ![t] = "okfail"]
    /\ UNCHANGED <<fnVars, told, windows, storeVars, taskVars, pipeVars, capOut, capEp,
                   calls, nOps, events, recv, nTrig>>

\* ----------------------------------------------------------- the watchdog
\* start_watchdog: lock the subprocess and take its three streams out
\* (unwrap() panics on a stream that is not there), start the captures
WdStart(t) ==
    /\ wd[t] = "start"
    /\ ~procHeld[t]
    /\ IF streams[t]
       THEN /\ wd' = [wd EXCEPT ![t] = "select"]
            /\ procHeld' = [procHeld EXCEPT ![t] = TRUE]
            /\ streams' = [streams EXCEPT ![t] = FALSE]
            /\ capOut' = [capOut EXCEPT ![t] = "check"]
            /\ capErr' = [capErr EXCEPT ![t] = "read"]
            /\ capEp' = [capEp EXCEPT ![t] = ep[t]]
       ELSE /\ wd' = [wd EXCEPT ![t] = "panicked"]
            /\ UNCHANGED <<procHeld, streams, capVars>>
    /\ UNCHANGED <<fnVars, told, windows, storeVars, slot, stateLock, proc, reaped, ep,
                   cancelled, pipeVars, calls, nOps, events, recv, nTrig>>

NoVerdict == [kind |-> "none", reason |-> "", restore |-> FALSE]

\* the verdict with Ok(false) of the stdout capture taken for the end of
\* the stream of progress
CaptureVerdict_FinishOnPause(so, se) ==
    CASE so = "panic" ->
            [kind |-> "error", reason |-> "StdoutHandleFailed", restore |-> FALSE]
      [] so # "panic" /\ se = "errRuntime" ->
            [kind |-> "error", reason |-> "FFmpegRuntime", restore |-> TRUE]
      [] so \in {"oktrue", "okfalse"} /\ se \in CapErrOk ->
            [kind |-> "finish", reason |-> "", restore |-> TRUE]
      [] so = "errUnexpected" /\ se \in CapErrOk ->
            [kind |-> "error", reason |-> "UnexpectedTermination", restore |-> TRUE]
      [] so = "errInternal" /\ se \in CapErrOk ->
            [kind |-> "error", reason |-> "Internal", restore |-> TRUE]

\* ProcessStatus::PauseOrFinish: what the watchdog does with the results
\* of the two captures
CaptureVerdict(so, se) ==
    CASE so = "panic" ->
            [kind |-> "error", reason |-> "StdoutHandleFailed", restore |-> FALSE]
      [] so # "panic" /\ se = "errRuntime" ->
            [kind |-> "error", reason |-> "FFmpegRuntime", restore |-> TRUE]
      [] so = "oktrue" /\ se \in CapErrOk ->
            [kind |-> "finish", reason |-> "", restore |-> TRUE]
      [] so = "okfalse" /\ se \in CapErrOk ->
            [kind |-> "none", reason |-> "", restore |-> TRUE]
      [] so = "errUnexpected" /\ se \in CapErrOk ->
            [kind |-> "error", reason |-> "UnexpectedTermination", restore |-> TRUE]
      [] so = "errInternal" /\ se \in CapErrOk ->
            [kind |-> "error", reason |-> "Internal", restore |-> TRUE]

\* ProcessStatus::Exit / Killed: what the watchdog does with the exit status
ExitVerdict(st) ==
    IF st = "exitOk" THEN NoVerdict
    ELSE [kind |-> "error", reason |-> "UnexpectedTermination", restore |-> FALSE]

\* tokio::spawn(async move { task.finish() / task.error(reason) })
Spawn(t, v) ==
    IF v.kind = "none"
    THEN UNCHANGED <<calls, recv, nTrig>>
    ELSE /\ calls' = [calls EXCEPT ![WCall(t, ep[t])] =
                        [kind |-> v.kind, t |-> t, pc |-> "t_lock",
                         reason |-> v.reason, res |-> "", from |-> ""]]
         /\ recv' = [recv EXCEPT ![t] = @ \cup {v.kind}]
         /\ nTrig' = [nTrig EXCEPT ![t] = @ + 1]

\* the select! of the watchdog: the join of both captures completed first
WdJoin(t) ==
    /\ wd[t] = "select"
    /\ capOut[t] \in CapOutDone
    /\ capErr[t] \in CapErrDone
    /\ LET v == CaptureVerdict(capOut[t], capErr[t]) IN
        /\ streams' = [streams EXCEPT ![t] = v.restore]
        /\ Spawn(t, v)
    /\ wd' = [wd EXCEPT ![t] = "done"]
    /\ procHeld' = [procHeld EXCEPT ![t] = FALSE]
    /\ capOut' = [capOut EXCEPT ![t] = "none"]
    /\ capErr' = [capErr EXCEPT ![t] = "none"]
    /\ UNCHANGED <<fnVars, told, windows, storeVars, slot, stateLock, proc, reaped, ep,
                   cancelled, pipeVars, capEp, nOps, events>>

\* the select! of the watchdog: process.wait() completed first; the
\* captures are left running with the streams
WdWait(t) ==
    /\ wd[t] = "select"
    /\ proc[t] \in {"exitOk", "exitFail"}
    /\ reaped' = [reaped EXCEPT ![t] = TRUE]
    /\ Spawn(t, ExitVerdict(proc[t]))
    /\ wd' = [wd EXCEPT ![t] = "done"]
    /\ procHeld' = [procHeld EXCEPT ![t] = FALSE]
    /\ UNCHANGED <<fnVars, told, windows, storeVars, slot, stateLock, proc, streams, ep,
                   cancelled, pipeVars, capVars, nOps, events>>

\* ------------------------------------------------------- specifications
\* steps of the program's own tokio tasks
SysNext ==
    \/ \E c \in CallIds :
        \/ Transition(c)
        \/ Joined(c)
        \/ RemoveLock(c)
        \/ RemoveBody(c)
        \/ Emit(c)
    \/ \E u \in Users :
        \/ StoreLock(u)
        \/ StoreStart(u)
        \/ StoreOp(u)
    \/ \E t \in Tasks :
        \/ WdStart(t)
        \/ WdJoin(t)
        \/ WdWait(t)
        \/ CapOutCheck(t)
        \/ CapOutCancelled(t)
        \/ CapOutRead(t)
        \/ CapOutEof(t)
        \/ CapErrCancelled(t)
        \/ CapErrRead(t)
        \/ CapErrEof(t)

\* steps of the environment: the user interface, the subprocess, I/O faults
EnvNext ==
    \/ \E u \in Users, op \in {"start", "stop", "pause", "resume"} :
        Invoke(u, op)
    \/ \E t \in Tasks :
        \/ ProcWriteOut(t)
        \/ ProcWriteErr(t)
        \/ ProcExit(t)
        \/ CapOutFail(t)
        \/ CapErrFail(t)

Next == SysNext \/ EnvNext

Spec == Init /\ [][Next]_vars

\* the tokio runtime runs every task that can make a step; the user and
\* the subprocess owe nothing.  Every counter of the model only grows, so
\* a behaviour ends in stuttering, and fairness to the steps of the program
\* together is fairness to each of its tasks.
FairSpec == Spec /\ WF_vars(SysNext)

\* ------------------------------------------------------------- vocabulary
Created(t) == t <= nTasks
InStore(t) == store[IdOf(t)] = t
IsTerminalMsg(m) == m.kind \in {"Finished", "Errored"}
\* the terminal events emitted for a task, in order
TermEvents(t) == SelectSeq(events[t], IsTerminalMsg)
Range(q) == {q[i] : i \in 1..Len(q)}
Active(c) == calls[c].pc \notin {"idle", "done", "panicked"}
\* a Task method is running on t, or a store operation is under way
InFlight(t) ==
    \/ \E c \in CallIds : calls[c].t = t /\ Active(c)
    \/ \E u \in Users : Active(u)
\* the step emits a terminal event for t
EmitsTerminal(t) ==
    /\ Len(events'[t]) = Len(events[t]) + 1
    /\ IsTerminalMsg(events'[t][Len(events'[t])])
\* the step emits a Running event for t
EmitsRunning(t) ==
    /\ Len(events'[t]) = Len(events[t]) + 1
    /\ events'[t][Len(events'[t])] = RunningMsg

\* ----------------------------------------------------------------- claims
\* C1: whenever no operation on a task is in progress, the task is in the
\* store if and only if its state is Idle, Running or Pausing.
C1_KeyIffNonTerminal ==
    \A t \in Tasks :
        (Created(t) /\ ~InFlight(t) /\ slot[t].code # "None")
            => (InStore(t) <=> slot[t].code \in NonTerminalCodes)

\* the reasons only a failure inside a transition function gives
TransitionFailures == {"FFmpegNotFound", "WriteFailed", "KillFailed", "JoinError"}

\* C2: when start, pause, resume or stop has returned Ok after its
\* transition failed into Errored{reason}, the task is out of the store and
\* an Errored event with that reason has been emitted.
C2_FailedTransitionReported ==
    \A u \in Users :
        LET c == calls[u] IN
        (/\ c.pc = "done"
         /\ c.res = "Ok"
         /\ c.kind \in {"start", "pause", "resume", "stop"}
         /\ c.from \in NonTerminalCodes
         /\ slot[c.t].code = "Errored"
         /\ slot[c.t].reason \in TransitionFailures)
            => /\ ~InStore(c.t)
               /\ ErroredMsg(slot[c.t].reason) \in Range(events[c.t])

\* C3: at most one terminal event (Finished or Errored) is ever emitted
\* for a task.
C3_AtMostOneTerminalEvent ==
    \A t \in Tasks : Len(TermEvents(t)) <= 1

\* the one stop / finish / error call a task with nTrig = 1 has received
Trigger(t) == CHOOSE k \in {"stop", "finish", "error"} : k \in recv[t]
\* that call has returned
TriggerReturned(t) ==
    \E c \in CallIds :
        /\ calls[c].t = t
        /\ calls[c].kind = Trigger(t)
        /\ calls[c].pc = "done"
\* the terminal event kind named after a trigger
KindOf(k) ==
    CASE k = "stop" -> "Stopped"
      [] k = "finish" -> "Finished"
      [] k = "error" -> "Errored"

C5_EmittedAfterRemoval ==
    [][\A t \in Tasks :
          EmitsTerminal(t) =>
              /\ slot[t].code \in TerminalCodes
              /\ store[IdOf(t)] = NoTask]_vars

\* C6: a Running event is emitted only while the task is in the store, its
\* state is not terminal and no terminal event has been emitted for it.
C6_RunningOnlyWhileLive ==
    [][\A t \in Tasks :
          EmitsRunning(t) =>
              /\ InStore(t)
              /\ slot[t].code \notin TerminalCodes
              /\ TermEvents(t) = <<>>]_vars

\* C7: once Store.stop has taken a task from Running to Stopped, no
\* Finished and no Errored event is emitted for it, and when the stop has
\* returned the task is out of the store.
C7_NoEventAfterStop ==
    [][\A u \in Users :
          LET c == calls[u] IN
          (/\ c.kind = "stop"
           /\ c.from = "Running"
           /\ slot[c.t].code = "Stopped")
              => /\ ~EmitsTerminal(c.t)
                 /\ c.pc = "done" => ~InStore(c.t)]_vars

\* a capture of the task ended on a failed read, or on a diagnostic line
CaptureFailed(t) ==
    capOut[t] = "errInternal" \/ capErr[t] \in {"okfail", "errRuntime"}

\* C8: if the subprocess of a started task has written progress=end and
\* exited with success, then, unless a pause, a stop or an error comes in
\* or a capture fails, the task eventually is Finished and out
\* of the store, and its Finished event is the last event emitted for it.
C8_EndThenFinished ==
    \A t \in Tasks :
        (proc[t] = "exitOk" /\ outEnd[t])
            ~> \/ recv[t] \cap {"pause", "stop", "error"} # {}
               \/ CaptureFailed(t)
               \/ /\ slot[t] = Finished
                  /\ ~InStore(t)
                  /\ Len(events[t]) > 0
                  /\ events[t][Len(events[t])] = FinishedMsg

\* C9: a pause or stop that found the task Running and awaits the
\* watchdog handle eventually gets past that await.
C9_PauseStopReturns ==
    \A u \in Users :
        (calls[u].kind \in {"pause", "stop"} /\ calls[u].pc = "join")
            ~> (calls[u].pc # "join")

\* C10: a task whose state is terminal has no live subprocess.
C10_TerminalMeansDead ==
    \A t \in Tasks : slot[t].code \in TerminalCodes => proc[t] # "alive"

\* the watchdog task of the latest episode has not returned yet
WatchdogLive(t) == wd[t] \in {"start", "select"}

\* C11: a task whose state is Pausing, Stopped, Finished or Errored has no
\* live watchdog.
C11_NoWatchdogOutsideRunning ==
    \A t \in Tasks :
        slot[t].code \in {"Pausing", "Stopped", "Finished", "Errored"}
            => ~WatchdogLive(t)

\* C11 witness: a task left Running for Pausing and its watchdog has
\* returned.
C11_Witness ==
    \E t \in Tasks : slot[t] = Pausing /\ ep[t] >= 1 /\ wd[t] = "done"

\* the finish / error call spawned by the watchdog of the current episode
\* has not returned yet
WatchdogCallPending(t) == Active(WCall(t, ep[t]))

\* C12: a task whose state is Running has a live watchdog, or a finish or
\* error call issued by the watchdog of the current episode is pending.
C12_RunningIsSupervised ==
    \A t \in Tasks :
        slot[t] = Running => WatchdogLive(t) \/ WatchdogCallPending(t)

\* a TaskStore::resume has been invoked and has not returned
ResumeInvoked == \E u \in Users : calls[u].kind = "resume" /\ Active(u)

\* C13: while a task is Pausing and no resume has been invoked, no Running
\* event is emitted for it.
C13_NoRunningWhilePausing ==
    [][\A t \in Tasks :
          (slot[t] = Pausing /\ ~ResumeInvoked) => ~EmitsRunning(t)]_vars

\* the outcome C14 promises for a diagnostic line: the task Errored, its
\* subprocess dead, the Errored event with the diagnostic text emitted, and
\* the id out of the store
DiagnosticReported(t) ==
    /\ slot[t].code = "Errored"
    /\ proc[t] # "alive"
    /\ ErroredMsg("FFmpegRuntime") \in Range(events[t])
    /\ ~InStore(t)

\* C14: if the stderr capture has read a line while the task is Running
\* and the subprocess has exited by itself, then, unless a pause or a stop
\* comes in or the stdout capture fails, the task eventually is Errored, its subprocess is dead, an Errored event
\* with the diagnostic text as reason has been emitted and the id is out
\* of the store.
C14_DiagnosticLineErrors ==
    \A t \in Tasks :
        (capErr[t] = "errRuntime" /\ slot[t] = Running
                                  /\ proc[t] \in {"exitOk", "exitFail"})
            ~> \/ recv[t] \cap {"pause", "stop"} # {}
               \/ capOut[t] = "errInternal"
               \/ DiagnosticReported(t)

\* the call of u is a TaskStore::<op> that holds the store lock and is
\* about to look its id up
AtLookup(u, ops) == calls[u].pc = "s_body" /\ calls[u].kind \in ops
\* the step is a step of the call of u
StepOf(u) == calls'[u] # calls[u]
\* the step changes nothing of the store, of any task or subprocess, and
\* emits nothing
NoEffect ==
    /\ store' = store /\ nTasks' = nTasks
    /\ slot' = slot /\ stateLock' = stateLock
    /\ proc' = proc /\ ep' = ep /\ wd' = wd /\ cancelled' = cancelled
    /\ events' = events

\* C15: TaskStore::start of an id that is a key of the store returns
\* TaskAlreadyExists and changes neither the store nor any task: no entry
\* is replaced, no transition runs, no subprocess is spawned.
C15_DuplicateStartRejected ==
    [][\A u \in Users :
          (/\ AtLookup(u, {"start"})
           /\ store[CHOOSE i \in Ids : TRUE] # NoTask
           /\ StepOf(u))
              => /\ calls'[u].pc = "done"
                 /\ calls'[u].res = "TaskAlreadyExists"
                 /\ NoEffect]_vars

\* C15 witness: a start was rejected while the id was held by a task that
\* is Running.
C15_Witness ==
    \E u \in Users :
        /\ calls[u].kind = "start"
        /\ calls[u].res = "TaskAlreadyExists"
        /\ store[CHOOSE i \in Ids : TRUE] # NoTask
        /\ slot[store[CHOOSE i \in Ids : TRUE]] = Running

\* C16: TaskStore::stop, pause and resume of an id that is not a key of
\* the store return TaskNotFound and change neither the store nor any
\* task, and emit nothing.
C16_UnknownIdRejected ==
    [][\A u \in Users :
          (/\ AtLookup(u, {"stop", "pause", "resume"})
           /\ store[CHOOSE i \in Ids : TRUE] = NoTask
           /\ StepOf(u))
              => /\ calls'[u].pc = "done"
                 /\ calls'[u].res = "TaskNotFound"
                 /\ calls'[u].t = NoTask
                 /\ NoEffect]_vars

\* C16 witness: an operation was rejected with TaskNotFound after a task
\* had been created and removed again.
C16_Witness ==
    \E u \in Users :
        /\ calls[u].kind \in {"stop", "pause", "resume"}
        /\ calls[u].res = "TaskNotFound"
        /\ nTasks >= 1

\* the call is inside a transition function of its task (between the
\* take() and the store of the successor node)
InTransition(c) == calls[c].pc = "join"

\* C17: a call inside a transition function of a task holds the task's
\* state lock (so at most one runs at a time); while the state lock of a
\* task is free its slot holds a node; and the state check of the stdout
\* capture never finds the slot empty.
C17_OneTransitionOneNode ==
    /\ \A c \in CallIds :
          InTransition(c) => stateLock[calls[c].t] = c
    /\ \A t \in Tasks :
          /\ (Created(t) /\ stateLock[t] = Free) => slot[t] # NoNode
          /\ capOut[t] # "panic"

\* the step in which call c acquires the store lock
AcquiresStore(c) == storeLock # c /\ storeLock' = c
\* call c holds the state lock of some task
HoldsState(c) == \E t \in Tasks : stateLock[t] = c

\* C18: locks are acquired in the order store, state, subprocess: no call
\* acquires the store lock while it holds the state lock of a task.  (The
\* subprocess lock is held by the watchdog task and, inside a transition,
\* by the kill; neither locks anything else while holding it.)
C18_LockOrder ==
    [][\A c \in CallIds : AcquiresStore(c) => ~HoldsState(c)]_vars

\* the store operation of u has called its Task method and the method is
\* not inside Task::remove's critical section
InTaskMethod(u) == calls[u].pc \in {"t_lock", "join", "r_lock", "emit"}

\* C19: once TaskStore::start / stop / pause / resume has called the Task
\* method it no longer holds the store lock, so the remove() of that method
\* never waits for a lock of its own caller.
C19_StoreLockDroppedBeforeTransition ==
    \A u \in Users : InTaskMethod(u) => storeLock # u

\* C19 witness: a TaskStore::stop whose Task::stop has finished its
\* transition and has acquired the store lock again, in remove().
C19_Witness ==
    \E u \in Users :
        calls[u].kind = "stop" /\ calls[u].pc = "r_rm" /\ storeLock = u

\* C20: Stopped, Finished and Errored are absorbing: no step changes the
\* node of a task whose state is terminal, neither its code nor the reason
\* of an Errored.
C20_TerminalAbsorbing ==
    [][\A t \in Tasks :
          slot[t].code \in TerminalCodes => slot'[t] = slot[t]]_vars

\* C20 witness: an error(r') has run on a task that was Errored{r} with
\* another reason, and has returned.
C20_Witness ==
    \E c \in CallIds :
        /\ calls[c].kind = "error"
        /\ calls[c].from = "Errored"
        /\ calls[c].pc = "done"
        /\ slot[calls[c].t].code = "Errored"
        /\ slot[calls[c].t].reason # calls[c].reason

\* the subprocess of t exited by itself (it was not killed)
ExitedByItself(t) == proc[t] \in {"exitOk", "exitFail"}

\* C21: a stop that found the task Running or Pausing with a subprocess
\* that had exited by itself does not leave the task Errored by the
\* failure of its start_kill.
C21_StopOfExitedNotErrored ==
    \A u \in Users :
        LET c == calls[u] IN
        (/\ c.kind = "stop"
         /\ c.from \in {"Running", "Pausing"}
         /\ c.pc = "done"
         /\ ExitedByItself(c.t))
            => slot[c.t] # Errored("KillFailed")

\* the task is neither terminal nor about to be made so by the finish or
\* error call of its last watchdog
RemainsNonTerminal(t) ==
    slot[t].code \in {"Running", "Pausing"} /\ ~WatchdogCallPending(t)

\* C29: whenever the watchdog of a task has returned and the task remains
\* non-terminal, the subprocess handle holds its three streams again.
C29_StreamsBackAfterWatchdog ==
    \A t \in Tasks :
        (ep[t] >= 1 /\ wd[t] = "done" /\ RemainsNonTerminal(t)) => streams[t]

\* the subprocess of the task has written nothing to its diagnostic stream
DiagnosticSilent(t) == errW[t] = 0

\* C30: if the stdout capture of a Running task has ended with an error,
\* then, unless the subprocess exits, writes to its diagnostic stream, the
\* diagnostic capture itself ends, or a pause or stop comes in, the task
\* eventually is Errored and an Errored event has been emitted for it.
C30_CaptureErrorSurfaces ==
    \A t \in Tasks :
        (capOut[t] = "errInternal" /\ slot[t] = Running /\ wd[t] = "select")
            ~> \/ proc[t] # "alive"
               \/ ~DiagnosticSilent(t)
               \/ capErr[t] \in CapErrDone
               \/ recv[t] \cap {"pause", "stop"} # {}
               \/ /\ slot[t].code = "Errored"
                  /\ \E k \in 1..Len(events[t]) : events[t][k].kind = "Errored"


\* C32: a task in Pausing whose subprocess is alive has had the pause
\* signal (byte 0x0D on Windows, SIGSTOP on Unix) delivered to it as its
\* last control signal, by Running.pause after the watchdog joined and
\* before Pausing was stored.
C32_PausingWasToldToSuspend ==
    \A t \in Tasks : (slot[t] = Pausing /\ proc[t] = "alive") => told[t] = "pause"


\* the step is the watchdog of t leaving its select with the results of
\* both captures
JoinStep(t) == wd[t] = "select" /\ wd'[t] = "done" /\ capOut'[t] # capOut[t]
\* the call the watchdog of t issues in the step, if any
IssuedIn(t) ==
    LET c == WCall(t, ep[t]) IN
    IF calls'[c] # calls[c] THEN calls'[c] ELSE NoCall
StdoutOk(t) == capOut[t] \in {"oktrue", "okfalse"}
StdoutFailed(t) == capOut[t] \in {"errUnexpected", "errInternal"}
StderrFailed(t) == capErr[t] = "errRuntime"

\* C33: a watchdog that leaves its select with the results of the captures
\* issues finish iff both returned Ok and the progress capture reported
\* the end, issues error iff a capture failed (with the diagnostic
\* capture's reason when both returned an error), issues nothing when both
\* returned Ok without the end, and touches no other call.
C33_VerdictOfCaptures ==
    [][\A t \in Tasks :
          JoinStep(t)
              => /\ IssuedIn(t).kind = "finish"
                        <=> (capOut[t] = "oktrue" /\ ~StderrFailed(t))
                 /\ IssuedIn(t).kind = "error"
                        <=> (~StdoutOk(t) \/ StderrFailed(t))
                 /\ IssuedIn(t).kind = "none"
                        <=> (capOut[t] = "okfalse" /\ ~StderrFailed(t))
                 /\ (StdoutFailed(t) /\ StderrFailed(t))
                        => IssuedIn(t).reason = "FFmpegRuntime"
                 /\ \A c \in CallIds :
                        c # WCall(t, ep[t]) => calls'[c] = calls[c]]_vars

C33_Witness ==
    \E t \in Tasks :
        /\ wd[t] = "done"
        /\ calls[WCall(t, ep[t])].kind = "finish"
        /\ streams[t]


\* the progress capture met the end of the stream before a progress=end
\* line, or the subprocess exited with failure
EndedUnexpectedly(t) == capOut[t] = "errUnexpected" \/ proc[t] = "exitFail"
\* a watchdog of the task has issued task.error(UnexpectedTermination)
UnexpectedReported(t) ==
    \E e \in Episodes :
        /\ calls[WCall(t, e)].kind = "error"
        /\ calls[WCall(t, e)].reason = "UnexpectedTermination"

\* a watchdog of the task has issued task.error for a failed read or a
\* failed capture task
ReadFailureReported(t) ==
    \E e \in Episodes :
        calls[WCall(t, e)].reason \in {"Internal", "StdoutHandleFailed"}

\* C34: once the progress stream of a task has ended before progress=end
\* or its subprocess has exited with failure, no Finished event is emitted
\* for the task, and, unless a pause or stop comes in, a diagnostic line
\* was written or a capture fails on a read, a watchdog eventually reports
\* UnexpectedTermination through task.error.
C34_UnexpectedTerminationReported ==
    \A t \in Tasks :
        /\ [](EndedUnexpectedly(t) => FinishedMsg \notin Range(events[t]))
        /\ EndedUnexpectedly(t)
              ~> \/ UnexpectedReported(t)
                 \/ recv[t] \cap {"pause", "stop"} # {}
                 \/ ~DiagnosticSilent(t)
                 \/ CaptureFailed(t)
                 \/ ReadFailureReported(t)


\* the captures of episode e of task t are running
CapturesLive(t, e) ==
    /\ capEp[t] = e
    /\ capOut[t] \in {"check", "select"}
    /\ capErr[t] = "read"

\* C35: a step that begins a Running episode (it starts a watchdog) gives
\* the episode tokens that are not cancelled, whatever was cancelled before; only the tokens of the
\* episode under way are ever cancelled; and the step that cancels them
\* leaves the subprocess as it was.
C35_FreshTokensPerEpisode ==
    [][\A t \in Tasks :
          /\ (wd'[t] = "start" /\ wd[t] # "start")
                => /\ ep'[t] \notin cancelled'[t]
                   /\ ep'[t] \notin cancelled[t]
          /\ cancelled'[t] # cancelled[t]
                => /\ cancelled'[t] = cancelled[t] \cup {ep[t]}
                   /\ ep'[t] = ep[t]
                   /\ proc'[t] = proc[t]
                   /\ reaped'[t] = reaped[t]]_vars

C35_Witness ==
    \E t \in Tasks :
        /\ ep[t] = 2
        /\ cancelled[t] = {1}
        /\ CapturesLive(t, 2)
        /\ proc[t] = "alive"


\* the event the step appends to the events of task t
Emitted(t) == events'[t][Len(events'[t])]

\* C36: a Finished event is emitted only for a task whose state is
\* Finished, an Errored event only for a task whose state is Errored with
\* the reason the event carries, and either only for an id that is no
\* longer in the store.
C36_TerminalEventMatchesState ==
    [][\A t \in Tasks :
          (/\ Len(events'[t]) = Len(events[t]) + 1
           /\ Emitted(t).kind \in {"Finished", "Errored"})
              => /\ ~InStore(t)
                 /\ Emitted(t).kind = "Finished"
                        => slot[t].code = "Finished"
                 /\ Emitted(t).kind = "Errored"
                        => slot[t] = Errored(Emitted(t).reason)]_vars


\* no call on task t is under way
AtRest(t) ==
    \A c \in CallIds :
        calls[c].t = t => calls[c].pc \in {"idle", "done", "panicked"}

\* the task stored under the id has reached a terminal state
KeyOfTerminal ==
    \E id \in Ids :
        /\ store[id] # NoTask
        /\ slot[store[id]].code \in TerminalCodes
        /\ AtRest(store[id])

\* C37: a Store.start that finds, under its id, a task that has reached a
\* terminal state and on which no call is under way is not rejected with
\* TaskAlreadyExists.
C37_RestartAfterTerminal ==
    [][\A u \in CallIds :
          (/\ calls[u].kind = "start"
           /\ calls[u].pc = "s_body"
           /\ calls'[u].pc # "s_body"
           /\ KeyOfTerminal)
              => calls'[u].res # "TaskAlreadyExists"]_vars


\* the progress lines of task t that a capture has parsed: each one gave
\* a Running event
LinesParsed(t) ==
    Cardinality({i \in DOMAIN events[t] : events[t][i] = RunningMsg})

\* the task was paused and resumed: the capture of a later episode runs
Resumed(t) ==
    /\ ep[t] > 1
    /\ capEp[t] = ep[t]
    /\ capOut[t] \in {"check", "select"}

\* C38: while the capture of a resumed task runs, every progress line
\* taken out of the pipe so far has been parsed or is held in the buffer
\* of the running capture; and a task that was paused and resumed and
\* whose subprocess wrote progress=end and exited with success has no
\* Errored{UnexpectedTermination} event.
C38_NoLineLostAcrossPause ==
    \A t \in Tasks :
        /\ Resumed(t) => outR[t] = LinesParsed(t) + outBuf[t]
        /\ (ep[t] > 1 /\ outEnd[t] /\ proc[t] = "exitOk")
              => ErroredMsg("UnexpectedTermination") \notin Range(events[t])


\* the watchdog of task t is at work: spawned and not yet returned
WatchdogAtWork(t) == wd[t] \in {"start", "select"}
\* one of the two captures of task t has not returned
CaptureAtWork(t) == capOut[t] \in {"check", "select"} \/ capErr[t] = "read"

\* C40: a step that launches a watchdog for a task finds no watchdog of
\* the task at work, a step that starts a pair of captures finds no
\* capture of the task at work, and the lock on the subprocess is held
\* exactly while the watchdog supervises: from taking the streams to
\* leaving its select.
C40_OneWatchdogPerEpisode ==
    /\ [][\A t \in Tasks :
             /\ (wd'[t] = "start" /\ (wd[t] # "start" \/ ep'[t] # ep[t]))
                   => ~WatchdogAtWork(t)
             /\ (capEp'[t] # capEp[t] \/ (wd[t] = "start" /\ wd'[t] = "select"))
                   => ~CaptureAtWork(t)]_vars
    /\ [](\A t \in Tasks : procHeld[t] <=> wd[t] = "select")

C40_Witness ==
    \E t \in Tasks :
        /\ ep[t] = 2
        /\ wd[t] = "select"
        /\ procHeld[t]
        /\ capEp[t] = 2
        /\ capOut[t] = "select"


\* ------------------------------------------------ functions of the program
\* everything but the function under evaluation
sysVars == <<windows, told, storeVars, taskVars, pipeVars, capVars, calls, nOps,
             events, recv, nTrig>>

\* all sequences over S of length at most n
RECURSIVE SeqsUpTo(_, _)
SeqsUpTo(S, n) ==
    IF n = 0 THEN {<<>>}
    ELSE LET shorter == SeqsUpTo(S, n - 1) IN
         shorter \cup {Append(q, x) : q \in {r \in shorter : Len(r) = n - 1},
                                      x \in S}

\* ---- the stderr capture as a function of what read_line returned
\* words the subprocess writes to its standard error
MaxWords == 2
Words == {"x264", "x265", "Invalid", "argument"}
Newline == "\n"
\* what one read_line leaves in the buffer: some words, with the newline
\* unless the stream ended first; nothing at all at the end of the stream
StderrLines ==
    {body \o nl : body \in SeqsUpTo(Words, MaxWords),
                  nl \in {<<>>, <<Newline>>}}

\* the body of the stderr capture after read_line returned Ok(len): Ok(())
\* for len = 0, Err(FFmpegRuntimeError(line)) for anything else
StderrResult(line) ==
    IF Len(line) = 0
    THEN [ok |-> TRUE, reason |-> <<>>]
    ELSE [ok |-> FALSE, reason |-> line]

StderrInit ==
    /\ InitStore
    /\ fnArg \in StderrLines
    /\ fnRet = NoValue

CaptureStderrLine ==
    /\ fnRet = NoValue
    /\ fnRet' = StderrResult(fnArg)
    /\ UNCHANGED <<fnArg, sysVars>>

StderrSpec == StderrInit /\ [][CaptureStderrLine]_vars

\* the prefixes of informational encoder banners
IgnorePrefixes == {"x264", "x265"}
\* the words of a line, without its newline
TextOf(line) == SelectSeq(line, LAMBDA w : w # Newline)
\* the text is empty, or its first token is an ignore prefix
Ignorable(line) ==
    TextOf(line) = <<>> \/ TextOf(line)[1] \in IgnorePrefixes

\* C22: the stderr capture returns Ok exactly when the captured text is
\* empty or its first token starts with an ignore prefix (x264, x265).
C22_IgnorePrefixFiltered ==
    fnRet # NoValue => (fnRet.ok <=> Ignorable(fnArg))

\* ---- the progress resolver (progress.rs)
\* Option<f64> / Option<usize> as find_progress_args returns them; seconds
\* and bytes are whole numbers here
None == [some |-> FALSE, v |-> 0]
Some(x) == [some |-> TRUE, v |-> x]
Opt(S) == {None} \cup {Some(x) : x \in S}

Min(a, b) == IF a <= b THEN a ELSE b
Max(a, b) == IF a >= b THEN a ELSE b
Abs(a) == IF a < 0 THEN 0 - a ELSE a

\* OutputProgressSource / InputProgressSource
SrcDuration(x) == [kind |-> "Duration", v |-> x]
SrcDurationOffset(x) == [kind |-> "DurationOffset", v |-> x]
SrcFileSize(x) == [kind |-> "FileSize", v |-> x]
SrcUnspecified == [kind |-> "Unspecified", v |-> 0]
\* the Err of invoke_ffprobe, passed on by `?`
SrcErr == [kind |-> "Err", v |-> 0]

\* ProgressType, and the Err find_progress_type passes on
ByDuration(x) == [type |-> "ByDuration", v |-> x]
ByFileSize(x) == [type |-> "ByFileSize", v |-> x]
Unspecified == [type |-> "Unspecified", v |-> 0]
ResolveErr == [type |-> "Err", v |-> 0]

\* find_output_progress_sources with -to read before -t
FindOutputProgressSources_ToBeforeT(o) ==
    IF o.fs.some THEN SrcFileSize(o.fs.v)
    ELSE IF ~o.ss.some /\ ~o.to.some /\ ~o.t.some THEN SrcUnspecified
    ELSE IF o.to.some /\ ~o.ss.some THEN SrcDuration(o.to.v)
    ELSE IF o.to.some THEN SrcDuration(o.to.v - o.ss.v)
    ELSE IF o.t.some THEN SrcDuration(o.t.v)
    ELSE SrcDurationOffset(o.ss.v)

\* find_output_progress_sources on the flags (ss, to, t, fs) of an output
FindOutputProgressSources(o) ==
    IF o.fs.some THEN SrcFileSize(o.fs.v)
    ELSE IF ~o.ss.some /\ ~o.to.some /\ ~o.t.some THEN SrcUnspecified
    ELSE IF o.t.some THEN SrcDuration(o.t.v)
    ELSE IF ~o.ss.some THEN SrcDuration(o.to.v)
    ELSE IF ~o.to.some THEN SrcDurationOffset(o.ss.v)
    ELSE SrcDuration(o.to.v - o.ss.v)

\* the clipping match of find_input_progress_sources, arm by arm
Clip(d, ss, sseof, to, t) ==
    IF ~ss.some /\ ~sseof.some
    THEN IF t.some THEN Min(t.v, d)
         ELSE IF to.some THEN Min(to.v, d)
         ELSE d
    ELSE IF ~ss.some
    THEN IF sseof.v > 0 THEN 0
         ELSE LET from == d + sseof.v IN
              IF t.some THEN Min(from + t.v, d) - from
              ELSE IF to.some
                   THEN IF from > Min(to.v, d) THEN Abs(sseof.v)
                        ELSE Min(to.v, d) - from
              ELSE d + sseof.v
    ELSE IF ~sseof.some /\ ~to.some /\ ~t.some THEN d - ss.v
    ELSE IF t.some
    THEN Min(Min(ss.v, d) + t.v, d) - Min(ss.v, d)
    ELSE IF to.some
    THEN IF ss.v > to.v THEN 0
         ELSE IF ss.v < 0 THEN Abs(ss.v) * 2 + to.v
         ELSE Min(to.v, d) - Min(ss.v, d)
    ELSE d - Min(ss.v, d)

\* find_input_progress_sources on an input: the outcome of its probe and
\* its flags (ss, sseof, to, t, fs)
FindInputProgressSources(i) ==
    IF i.probe.st = "err" THEN SrcErr
    ELSE IF i.probe.st = "none" THEN SrcUnspecified
    ELSE IF i.fs.some THEN SrcUnspecified
    ELSE SrcDuration(Clip(i.probe.d, i.ss, i.sseof, i.to, i.t))

\* the values of the sources of one kind, in order
ValuesOf(srcs, kind) ==
    LET sel == SelectSeq(srcs, LAMBDA x : x.kind = kind)
    IN  [k \in 1..Len(sel) |-> sel[k].v]

RECURSIVE SumSeq(_)
SumSeq(q) == IF q = <<>> THEN 0 ELSE q[1] + SumSeq(Tail(q))

\* the first element in place of the maximum
MaxSeq_First(q) == q[1]

\* the maximum of a non-empty sequence
RECURSIVE MaxSeq(_)
MaxSeq(q) == IF Len(q) = 1 THEN q[1] ELSE Max(q[1], MaxSeq(Tail(q)))

\* find_progress_type
FindProgressType(args) ==
    LET outs == [k \in 1..Len(args.outputs) |->
                    FindOutputProgressSources(args.outputs[k])]
        durations == ValuesOf(outs, "Duration")
        offsets == ValuesOf(outs, "DurationOffset")
        sizes == ValuesOf(outs, "FileSize")
        ins == [k \in 1..Len(args.inputs) |->
                   FindInputProgressSources(args.inputs[k])]
        probed == ValuesOf(ins, "Duration")
    IN  IF sizes # <<>> /\ durations = <<>> /\ offsets = <<>>
        THEN ByFileSize(SumSeq(sizes))
        ELSE IF sizes = <<>> /\ durations # <<>> /\ offsets = <<>>
        THEN ByDuration(MaxSeq(durations))
        ELSE IF durations = <<>> /\ sizes = <<>> /\ offsets # <<>>
        THEN IF \E k \in 1..Len(ins) : ins[k] = SrcErr THEN ResolveErr
             ELSE IF probed # <<>>
             THEN ByDuration(MaxSeq(probed) - MaxSeq(offsets))
             ELSE Unspecified
        ELSE Unspecified

\* ---- the resolver applied to bounded Arguments
MaxOutputs == 2
MaxInputs == 2
MaxSecs == 2
MaxBytes == 1

Secs == 1..MaxSecs
\* the flags find_progress_args reads from an output's params
OutputFlags == [ss : Opt(Secs), to : Opt(Secs), t : Opt(Secs), fs : Opt(1..MaxBytes)]
\* what ffprobe gives for an input: it cannot be spawned, its output holds
\* no duration, or a duration
ProbeOutcomes == {[st |-> "err", d |-> 0], [st |-> "none", d |-> 0]}
                     \cup {[st |-> "ok", d |-> d] : d \in Secs}
\* the inputs of the resolver runs carry -ss or nothing
SeekInputs == [probe : ProbeOutcomes, ss : Opt(Secs), sseof : {None}, to : {None},
               t : {None}, fs : {None}]
ResolveArgs == [outputs : SeqsUpTo(OutputFlags, MaxOutputs),
                inputs : SeqsUpTo(SeekInputs, MaxInputs)]

ResolveInit == InitStore /\ ~windows /\ fnArg \in ResolveArgs /\ fnRet = NoValue
Resolve ==
    /\ fnRet = NoValue
    /\ fnRet' = FindProgressType(fnArg)
    /\ UNCHANGED <<fnArg, sysVars>>
ResolveSpec == ResolveInit /\ [][Resolve]_vars

\* vocabulary of the resolver claims
Resolved == fnRet # NoValue
Outputs == fnArg.outputs
Inputs == fnArg.inputs
HasDurationFlag(o) == o.t.some \/ o.to.some
SeekOnly(o) == o.ss.some /\ ~o.to.some /\ ~o.t.some /\ ~o.fs.some
\* the duration an output with -t or -to asks for
AskedDuration(o) ==
    IF o.t.some THEN o.t.v
    ELSE IF o.ss.some THEN o.to.v - o.ss.v
    ELSE o.to.v
MaxOf(S) == CHOOSE m \in S : \A x \in S : x <= m
\* the probed durations that took part in the result
Participating ==
    IF \A k \in 1..Len(Outputs) : ~HasDurationFlag(Outputs[k]) /\ ~Outputs[k].fs.some
    THEN {Inputs[k].probe.d : k \in {j \in 1..Len(Inputs) : Inputs[j].probe.st = "ok"}}
    ELSE {}

\* C23 (as stated): whenever some output carries -t or -to, resolve returns
\* ByDuration with a duration that is non-negative and no greater than any
\* probed input duration that took part.
C23_DurationFlagGivesByDuration ==
    (Resolved /\ \E k \in 1..Len(Outputs) : HasDurationFlag(Outputs[k]))
        => /\ fnRet.type = "ByDuration"
           /\ fnRet.v >= 0
           /\ \A d \in Participating : fnRet.v <= d

\* C23 (amended): whenever some output carries -t or -to, no output carries
\* -fs and no output carries -ss alone, resolve returns ByDuration of the
\* largest duration those outputs ask for (T, else TO - SS, else TO), which
\* is negative exactly when every one of them is.
C23_AllDurationGivesMax ==
    LET asking == {k \in 1..Len(Outputs) : HasDurationFlag(Outputs[k])}
    IN  (/\ Resolved
         /\ asking # {}
         /\ \A k \in 1..Len(Outputs) : ~Outputs[k].fs.some /\ ~SeekOnly(Outputs[k]))
            => fnRet = ByDuration(MaxOf({AskedDuration(Outputs[k]) : k \in asking}))

C23_Witness ==
    /\ Resolved
    /\ Len(Outputs) = 2
    /\ \A k \in 1..2 : HasDurationFlag(Outputs[k]) /\ ~Outputs[k].fs.some
    /\ AskedDuration(Outputs[1]) < AskedDuration(Outputs[2])
    /\ fnRet = ByDuration(AskedDuration(Outputs[2]))

\* the resolver table: the class of an output by its flags
ClassOf(o) ==
    CASE o.fs.some -> "FileSize"
      [] ~o.fs.some /\ HasDurationFlag(o) -> "Duration"
      [] SeekOnly(o) -> "DurationOffset"
      [] OTHER -> "Unspecified"
Specified == {k \in 1..Len(Outputs) : ClassOf(Outputs[k]) # "Unspecified"}
AllOf(class) == Specified # {} /\ \A k \in Specified : ClassOf(Outputs[k]) = class
RECURSIVE SizeSum(_)
SizeSum(K) ==
    IF K = {} THEN 0
    ELSE LET k == CHOOSE x \in K : TRUE IN Outputs[k].fs.v + SizeSum(K \ {k})
\* the inputs that yield a duration, and what the clipping makes of it
Yielding == {k \in 1..Len(Inputs) : Inputs[k].probe.st = "ok" /\ ~Inputs[k].fs.some}
Effective(i) == Clip(i.probe.d, i.ss, i.sseof, i.to, i.t)
\* ffprobe could not be run for some input that had to be probed
ProbeFailed == AllOf("DurationOffset") /\ \E k \in 1..Len(Inputs) : Inputs[k].probe.st = "err"
TableResult ==
    IF AllOf("FileSize") THEN ByFileSize(SizeSum(Specified))
    ELSE IF AllOf("Duration")
    THEN ByDuration(MaxOf({AskedDuration(Outputs[k]) : k \in Specified}))
    ELSE IF AllOf("DurationOffset") /\ Yielding # {}
    THEN ByDuration(MaxOf({Effective(Inputs[k]) : k \in Yielding})
                        - MaxOf({Outputs[k].ss.v : k \in Specified}))
    ELSE Unspecified

MaxOffset == 3
\* -ss, -sseof, -to and -t of an input, either sign
Offsets == (0 - MaxOffset)..MaxOffset
ClipProbes == ProbeOutcomes \cup {[st |-> "ok", d |-> 0]}
ClipInputs == [probe : ClipProbes, ss : Opt(Offsets), sseof : Opt(Offsets),
               to : Opt(Offsets), t : Opt(Offsets), fs : Opt(1..MaxBytes)]

ClipInit == InitStore /\ ~windows /\ fnArg \in ClipInputs /\ fnRet = NoValue
ClipInput ==
    /\ fnRet = NoValue
    /\ fnRet' = FindInputProgressSources(fnArg)
    /\ UNCHANGED <<fnArg, sysVars>>
ClipSpec == ClipInit /\ [][ClipInput]_vars

\* the anomaly the table documents: -ss negative with -to
SeekAnomaly(i) == i.ss.some /\ i.ss.v < 0 /\ i.to.some
SeekAlone(i) == i.ss.some /\ ~i.sseof.some /\ ~i.to.some /\ ~i.t.some

\* C24: for an input with probed duration d >= 0 and no -fs, the effective
\* duration is never negative, never exceeds d apart from the -ss < 0 with
\* -to anomaly, and with -ss SS alone equals d - min(SS, d).
C24_ClippedWithinProbed ==
    (fnRet # NoValue /\ fnArg.probe.st = "ok" /\ ~fnArg.fs.some)
        => /\ fnRet.kind = "Duration"
           /\ fnRet.v >= 0
           /\ ~SeekAnomaly(fnArg) => fnRet.v <= fnArg.probe.d
           /\ SeekAlone(fnArg) => fnRet.v = fnArg.probe.d - Min(fnArg.ss.v, fnArg.probe.d)

\* ---- the argument serializer (commands/task.rs, commands/process.rs)
MaxParams == 1
\* the tokens a caller may pass as params and as paths; "" is the empty token
ParamTokens == {"", "-an"}
PathTokens == {"", "a.mp4"}
NoPath == [some |-> FALSE, v |-> ""]
PathOpt == {NoPath} \cup {[some |-> TRUE, v |-> p] : p \in PathTokens}
InputParams == [params : SeqsUpTo(ParamTokens, MaxParams), path : PathTokens]
OutputParams == [params : SeqsUpTo(ParamTokens, MaxParams), path : PathOpt]
TaskParams == [inputs : SeqsUpTo(InputParams, MaxInputs),
               outputs : SeqsUpTo(OutputParams, MaxOutputs)]

\* with_default_args!(args...)
WithDefaultArgs(args) == <<"-hide_banner", "-loglevel", "error">> \o args

InputArgs(input) == input.params \o <<"-i", input.path>>
OutputArgs(output) ==
    output.params \o (IF output.path.some THEN <<output.path.v, "", "">>
                       ELSE <<"-f", "null", "-">>)

\* inputs.iter().flat_map(..) and outputs.iter().flat_map(..)
RECURSIVE FlatInputArgs(_)
FlatInputArgs(q) == IF q = <<>> THEN <<>> ELSE InputArgs(q[1]) \o FlatInputArgs(Tail(q))
RECURSIVE FlatOutputArgs(_)
FlatOutputArgs(q) == IF q = <<>> THEN <<>> ELSE OutputArgs(q[1]) \o FlatOutputArgs(Tail(q))

\* TaskParams::to_args with outputs chained before inputs
ToArgs_OutputsFirst(params) ==
    SelectSeq(WithDefaultArgs(<<"-progress", "-", "-nostats">>)
                  \o FlatOutputArgs(params.outputs)
                  \o FlatInputArgs(params.inputs)
                  \o <<"-y">>,
              LAMBDA arg : arg # "")

\* TaskParams::to_args
ToArgs(params) ==
    SelectSeq(WithDefaultArgs(<<"-progress", "-", "-nostats">>)
                  \o FlatInputArgs(params.inputs)
                  \o FlatOutputArgs(params.outputs)
                  \o <<"-y">>,
              LAMBDA arg : arg # "")

SerializeInit == InitStore /\ fnArg \in TaskParams /\ fnRet = NoValue
Serialize ==
    /\ fnRet = NoValue
    /\ fnRet' = ToArgs(fnArg)
    /\ UNCHANGED <<fnArg, sysVars>>
SerializeSpec == SerializeInit /\ [][Serialize]_vars

\* the statement's layout: every piece rid of its empty tokens, then joined
NonEmpty(q) == SelectSeq(q, LAMBDA tok : tok # "")
InputPiece(input) == NonEmpty(input.params) \o <<"-i">> \o NonEmpty(<<input.path>>)
OutputPiece(output) ==
    NonEmpty(output.params) \o (IF output.path.some THEN NonEmpty(<<output.path.v>>)
                                 ELSE <<"-f", "null", "-">>)
\* the pieces of the inputs and of the outputs from the k-th on, in order
RECURSIVE InputPieces(_)
InputPieces(k) ==
    IF k > Len(fnArg.inputs) THEN <<>>
    ELSE InputPiece(fnArg.inputs[k]) \o InputPieces(k + 1)
RECURSIVE OutputPieces(_)
OutputPieces(k) ==
    IF k > Len(fnArg.outputs) THEN <<>>
    ELSE OutputPiece(fnArg.outputs[k]) \o OutputPieces(k + 1)
Layout(preamble) ==
    preamble \o InputPieces(1) \o OutputPieces(1) \o <<"-y">>
\* -progress - comes before the first -i
ProgressBeforeInputs ==
    \E p \in 1..(Len(fnRet) - 1) :
        /\ fnRet[p] = "-progress" /\ fnRet[p + 1] = "-"
        /\ \A j \in 1..Len(fnRet) : fnRet[j] = "-i" => p + 1 < j

\* C26 (as stated): the serialized tokens are the preamble -hide_banner
\* -progress - -nostats, each input's flags, -i and path, each output's flags
\* and its path or -f null -, then -y, with empty tokens removed; -progress -
\* precedes every input.
C26_SerializedLayout ==
    fnRet # NoValue
        => /\ fnRet = Layout(<<"-hide_banner", "-progress", "-", "-nostats">>)
           /\ ProgressBeforeInputs

\* C26 (amended): the same layout with the preamble -hide_banner -loglevel
\* error -progress - -nostats.
C26_SerializedLayoutWithLoglevel ==
    fnRet # NoValue
        => /\ fnRet = Layout(<<"-hide_banner", "-loglevel", "error",
                                "-progress", "-", "-nostats">>)
           /\ ProgressBeforeInputs

C26_Witness ==
    /\ fnRet # NoValue
    /\ Len(fnArg.inputs) = 2 /\ Len(fnArg.outputs) = 2
    /\ fnArg.inputs[1].params = <<"-an">> /\ fnArg.inputs[2].params = <<"">>
    /\ fnArg.outputs[1].path = NoPath /\ fnArg.outputs[2].path.v = "a.mp4"
    /\ fnArg.outputs[2].params = <<"-an">>
    /\ Len(fnRet) = 17

\* ---- the progress-stream parser (the loop of the stdout capture)
MaxFeed == 3
\* the lines ffmpeg may write to its progress stream, as read_line gives them
ProgressLines ==
    {"frame=1\n", "frame=2\n", "fps=1\n", "bitrate=1kbits/s\n", "bitrate=N/A\n",
     "total_size=1\n", "out_time_ms=1\n", "dup_frames=1\n", "drop_frames=1\n",
     "speed=2x\n", "speed=N/A\n", "speed=\n", "progress=continue\n", "progress=end\n",
     "foo\n", "\n"}
Feeds == SeqsUpTo(ProgressLines, MaxFeed)

Char(str, i) == SubSeq(str, i, i)
IsSpace(c) == c \in {" ", "\n", "\t", "\r"}
\* str::trim
RECURSIVE TrimStart(_)
TrimStart(str) ==
    IF Len(str) = 0 THEN str
    ELSE IF IsSpace(Char(str, 1)) THEN TrimStart(SubSeq(str, 2, Len(str)))
    ELSE str
RECURSIVE TrimEnd(_)
TrimEnd(str) ==
    IF Len(str) = 0 THEN str
    ELSE IF IsSpace(Char(str, Len(str))) THEN TrimEnd(SubSeq(str, 1, Len(str) - 1))
    ELSE str
Trim(str) == TrimEnd(TrimStart(str))

\* str::split("="): the places of "=" and the first two pieces
EqAt(str) == {i \in 1..Len(str) : Char(str, i) = "="}
MinOf(S) == CHOOSE m \in S : \A x \in S : m <= x
HasTwoPieces(str) == EqAt(str) # {}
FirstPiece(str) == SubSeq(str, 1, MinOf(EqAt(str)) - 1)
SecondPiece(str) ==
    LET first == MinOf(EqAt(str))
        later == {i \in EqAt(str) : i > first}
    IN  SubSeq(str, first + 1, IF later = {} THEN Len(str) ELSE MinOf(later) - 1)

\* str::parse of a run of decimal digits; anything else fails
Digits == {"0", "1", "2", "3", "4", "5", "6", "7", "8", "9"}
DigitValue(c) ==
    CASE c = "0" -> 0 [] c = "1" -> 1 [] c = "2" -> 2 [] c = "3" -> 3 [] c = "4" -> 4
      [] c = "5" -> 5 [] c = "6" -> 6 [] c = "7" -> 7 [] c = "8" -> 8 [] c = "9" -> 9
RECURSIVE Decimal(_)
Decimal(str) ==
    IF Len(str) = 0 THEN 0
    ELSE 10 * Decimal(SubSeq(str, 1, Len(str) - 1)) + DigitValue(Char(str, Len(str)))
Parse(str) ==
    IF Len(str) > 0 /\ \A i \in 1..Len(str) : Char(str, i) \in Digits
    THEN Some(Decimal(str))
    ELSE None

\* TaskRunningMessage::new
NewMessage ==
    [id |-> "T1", progress_type |-> Unspecified, raw |-> <<>>,
     frame |-> None, fps |-> None, bitrate |-> None, total_size |-> None,
     output_time_ms |-> None, dup_frames |-> None, drop_frames |-> None, speed |-> None]
\* TaskRunningMessage::clear
ClearMessage(message) ==
    [message EXCEPT !.frame = None, !.fps = None, !.bitrate = None, !.total_size = None,
                    !.output_time_ms = None, !.dup_frames = None, !.drop_frames = None,
                    !.raw = <<>>]

\* value[..value.len() - n] is out of range
SlicePanics(key, value) ==
    \/ key = "bitrate" /\ value # "N/A" /\ Len(value) < 7
    \/ key = "speed" /\ value # "N/A" /\ Len(value) < 1
\* the match on key, the progress arm apart
Assign(message, key, value) ==
    CASE key = "frame" -> [message EXCEPT !.frame = Parse(value)]
      [] key = "fps" -> [message EXCEPT !.fps = Parse(value)]
      [] key = "bitrate" ->
            [message EXCEPT !.bitrate =
                IF value = "N/A" THEN None ELSE Parse(SubSeq(value, 1, Len(value) - 7))]
      [] key = "total_size" -> [message EXCEPT !.total_size = Parse(value)]
      [] key = "out_time_ms" -> [message EXCEPT !.output_time_ms = Parse(value)]
      [] key = "dup_frames" -> [message EXCEPT !.dup_frames = Parse(value)]
      [] key = "drop_frames" -> [message EXCEPT !.drop_frames = Parse(value)]
      [] key = "speed" ->
            [message EXCEPT !.speed =
                IF value = "N/A" THEN None ELSE Parse(SubSeq(value, 1, Len(value) - 1))]
      [] OTHER -> message
Emits(key, value) == key = "progress" /\ value \in {"continue", "end"}

\* the capture task at its start: the line buffer, the message, the events
\* emitted, and per line read what its pass did: the text stored in raw, the
\* key matched, the assignment made (as it shows on a new message), whether
\* an event was sent
NewCapture ==
    [pos |-> 0, line |-> "", message |-> NewMessage, emitted |-> <<>>,
     justEmitted |-> FALSE, passes |-> <<>>, result |-> "running"]

\* one pass of the loop over the line read_line appends; emitOk is whether
\* emit_all succeeds
Pass(c, read, emitOk) ==
    LET line == c.line \o read
        trimmed == Trim(line)
        pushed == [c.message EXCEPT !.raw = Append(@, trimmed)]
        kv == HasTwoPieces(trimmed)
        key == Trim(FirstPiece(trimmed))
        value == Trim(SecondPiece(trimmed))
        emits == kv /\ Emits(key, value)
        panics == kv /\ SlicePanics(key, value)
        assigned == IF kv /\ ~panics THEN Assign(pushed, key, value) ELSE pushed
        pass == [read |-> read,
                 raw |-> trimmed,
                 key |-> IF kv THEN key ELSE "",
                 gives |-> IF kv /\ ~panics THEN Assign(NewMessage, key, value)
                           ELSE NewMessage,
                 emits |-> emits,
                 panics |-> panics]
    IN  [pos |-> c.pos + 1,
         line |-> IF kv THEN "" ELSE line,
         message |-> IF emits /\ emitOk THEN ClearMessage(assigned) ELSE assigned,
         emitted |-> IF emits /\ emitOk THEN Append(c.emitted, assigned) ELSE c.emitted,
         justEmitted |-> emits /\ emitOk,
         passes |-> Append(c.passes, pass),
         result |-> IF panics THEN "panic"
                    ELSE IF emits /\ ~emitOk THEN "errInternal"
                    ELSE IF emits /\ value = "end" THEN "okTrue"
                    ELSE "running"]

ParserInit == InitStore /\ ~windows /\ fnArg \in Feeds /\ fnRet = NewCapture
\* read_line gives the next line
CaptureLine ==
    /\ fnRet.result = "running"
    /\ fnRet.pos < Len(fnArg)
    /\ \E emitOk \in BOOLEAN : fnRet' = Pass(fnRet, fnArg[fnRet.pos + 1], emitOk)
    /\ UNCHANGED <<fnArg, sysVars>>
\* read_line gives 0: the stream is at its end
CaptureEof ==
    /\ fnRet.result = "running"
    /\ fnRet.pos = Len(fnArg)
    /\ fnRet' = [fnRet EXCEPT !.result = "errKilled", !.justEmitted = FALSE]
    /\ UNCHANGED <<fnArg, sysVars>>
\* the state is no longer Running, or the token is cancelled
CaptureCancelled ==
    /\ fnRet.result = "running"
    /\ fnRet' = [fnRet EXCEPT !.result = "okFalse", !.justEmitted = FALSE]
    /\ UNCHANGED <<fnArg, sysVars>>
ParserNext == CaptureLine \/ CaptureEof \/ CaptureCancelled
ParserSpec == ParserInit /\ [][ParserNext]_vars

\* C27: right after a Running event is emitted every optional numeric field
\* of the accumulating message, speed included, is absent and raw is empty,
\* with id and progress type as they were.
C27_ClearedAfterEmission ==
    fnRet.justEmitted => fnRet.message = NewMessage

\* C28: two passes over the same line do the same to the message, whatever
\* was read before: the same text stored, the same key matched, the same
\* assignment, the same emission.
C28_SameLineSameDelta ==
    \A i, j \in 1..Len(fnRet.passes) :
        fnRet.passes[i].read = fnRet.passes[j].read => fnRet.passes[i] = fnRet.passes[j]

\* ---- the transition functions applied to every node
Ops == {"start", "pause", "resume", "stop", "finish", "error"}
Reasons == {"r1", "r2"}
Nodes == {Idle, Running, Pausing, Stopped, Finished} \cup {Errored(r) : r \in Reasons}
TransitionEnvs == [start : {"ok", "FFmpegNotFound"}, writeOk : BOOLEAN, killOk : BOOLEAN]
TransitionArgs == [node : Nodes, op : Ops, reason : Reasons, hasStreams : BOOLEAN,
                   env : TransitionEnvs]

TransitionInit == InitStore /\ fnArg \in TransitionArgs /\ fnRet = NoValue
\* state.take().unwrap().<op>(task) on the node
TakeTransition ==
    /\ fnRet = NoValue
    /\ fnRet' = FirstPart(fnArg.op, fnArg.node, fnArg.reason, windows,
                          fnArg.hasStreams, fnArg.env)
    /\ UNCHANGED <<fnArg, sysVars>>
TransitionSpec == TransitionInit /\ [][TakeTransition]_vars

\* the (state, transition) pairs the state machine section describes
Described ==
    {<<"Idle", "start">>, <<"Idle", "stop">>, <<"Running", "pause">>,
     <<"Running", "stop">>, <<"Running", "finish">>, <<"Running", "error">>,
     <<"Pausing", "resume">>, <<"Pausing", "stop">>, <<"Pausing", "error">>}
\* the transition returned the node it was called on and touched nothing
IsNoOp ==
    /\ fnRet.node = fnArg.node
    /\ ~fnRet.cancel /\ ~fnRet.kill /\ ~fnRet.spawn /\ ~fnRet.watch /\ ~fnRet.panic
    /\ fnRet.signal = "none"

\* C31 (as stated): every (state, transition) pair but the nine described
\* ones returns the same node and leaves subprocess, tokens and watchdog
\* untouched.
C31_OthersAreNoOps ==
    (fnRet # NoValue /\ <<fnArg.node.code, fnArg.op>> \notin Described) => IsNoOp

\* C31 (amended): every pair but the nine described ones and Idle.error is
\* such a no-op; Idle.error returns Errored with the given reason and
\* touches nothing else.
C31_OthersButIdleErrorAreNoOps ==
    (fnRet # NoValue /\ <<fnArg.node.code, fnArg.op>> \notin Described)
        => IF fnArg.node = Idle /\ fnArg.op = "error"
           THEN /\ fnRet.node = Errored(fnArg.reason)
                /\ ~fnRet.cancel /\ ~fnRet.kill /\ ~fnRet.spawn /\ ~fnRet.watch
                /\ ~fnRet.panic /\ fnRet.signal = "none"
           ELSE IsNoOp

C31_Witness ==
    /\ fnRet # NoValue
    /\ fnArg.node = Pausing /\ fnArg.op = "finish"
    /\ fnRet.node = Pausing

\* ---- extract_duration applied to duration tokens
\* a duration in seconds, as the fraction num / den in lowest terms
RECURSIVE Gcd(_, _)
Gcd(a, b) == IF b = 0 THEN a ELSE Gcd(b, a % b)
NoDuration == [some |-> FALSE, num |-> 0, den |-> 1]
Seconds(n, d) ==
    LET g == Gcd(Abs(n), d)
    IN  [some |-> TRUE, num |-> n \div g, den |-> d \div g]
Negated(q) == [q EXCEPT !.num = 0 - @]

Take(str, n) == SubSeq(str, 1, n)
Drop(str, n) == SubSeq(str, n + 1, Len(str))
StartsWith(str, p) == Len(str) >= Len(p) /\ Take(str, Len(p)) = p
\* \d+ at the head of str: the length of the run of digits
RECURSIVE DigitRun(_)
DigitRun(str) ==
    IF Len(str) = 0 \/ Char(str, 1) \notin Digits THEN 0
    ELSE 1 + DigitRun(Drop(str, 1))
\* (?:\.{1}(\d+))? followed by rest: the digits after the dot ("" when the
\* group does not take part) and what follows the group
FractionGroup(str) ==
    IF StartsWith(str, ".") /\ DigitRun(Drop(str, 1)) > 0
    THEN [digits |-> Take(Drop(str, 1), DigitRun(Drop(str, 1))),
          rest |-> Drop(str, 1 + DigitRun(Drop(str, 1)))]
    ELSE [digits |-> "", rest |-> str]
\* an optional capture group parsed as f64
Parsed(digits) == IF digits = "" THEN None ELSE Some(Decimal(digits))

NoCaptures == [matched |-> FALSE]
\* DURATION_TYPE1_EXTRACTOR:
\* ^(-?)(?:(\d+):{1})?(\d{1,2}):(\d{1,2})(?:\.{1}(\d+))?$
DurationType1(value) ==
    LET negative == StartsWith(value, "-")
        a == IF negative THEN Drop(value, 1) ELSE value
        p1 == Take(a, DigitRun(a))
        b == Drop(a, Len(p1))
        p2 == IF StartsWith(b, ":") THEN Take(Drop(b, 1), DigitRun(Drop(b, 1))) ELSE ""
        c == Drop(b, 1 + Len(p2))
        p3 == IF StartsWith(c, ":") THEN Take(Drop(c, 1), DigitRun(Drop(c, 1))) ELSE ""
        three == StartsWith(c, ":")
        tail == FractionGroup(IF three THEN Drop(c, 1 + Len(p3)) ELSE c)
        hours == IF three THEN p1 ELSE ""
        mins == IF three THEN p2 ELSE p1
        secs == IF three THEN p3 ELSE p2
    IN  IF /\ StartsWith(b, ":")
           /\ three => Len(hours) > 0
           /\ Len(mins) \in 1..2
           /\ Len(secs) \in 1..2
           /\ tail.rest = ""
        THEN [matched |-> TRUE, negative |-> negative, hours |-> Parsed(hours),
              mins |-> Decimal(mins), secs |-> Decimal(secs),
              milliseconds |-> Parsed(tail.digits)]
        ELSE NoCaptures
\* DURATION_TYPE2_EXTRACTOR: ^(-?)(\d+)(?:\.{1}(\d+))?(s|ms|us?)?$
DurationType2(value) ==
    LET negative == StartsWith(value, "-")
        a == IF negative THEN Drop(value, 1) ELSE value
        integer == Take(a, DigitRun(a))
        tail == FractionGroup(Drop(a, Len(integer)))
    IN  IF Len(integer) > 0 /\ tail.rest \in {"", "s", "ms", "us", "u"}
        THEN [matched |-> TRUE, negative |-> negative, integer |-> Decimal(integer),
              decimals |-> Parsed(tail.digits), unit |-> tail.rest]
        ELSE NoCaptures

UnwrapOr(o, d) == IF o.some THEN o.v ELSE d
\* extract_duration
ExtractDuration(value) ==
    LET t1 == DurationType1(value)
        t2 == DurationType2(value)
    IN  IF t1.matched
        THEN LET q == Seconds((UnwrapOr(t1.hours, 0) * 3600 + t1.mins * 60 + t1.secs)
                                  * 1000 + UnwrapOr(t1.milliseconds, 0), 1000)
             IN  IF t1.negative THEN Negated(q) ELSE q
        ELSE IF t2.matched
        THEN LET sum == t2.integer + UnwrapOr(t2.decimals, 0)
                 q == CASE t2.unit \in {"", "s"} -> Seconds(sum, 1)
                        [] t2.unit = "ms" -> Seconds(sum, 1000)
                        [] t2.unit = "us" -> Seconds(sum, 1000000)
                        [] OTHER -> NoDuration
             IN  IF q.some /\ t2.negative THEN Negated(q) ELSE q
        ELSE NoDuration

\* the duration tokens tried: [-][H:]MM:SS[.frac], and [-]N[.frac] with a
\* unit or with a suffix that is no unit
ClockTokens ==
    [form : {"clock"}, negative : BOOLEAN, hours : {"", "1"}, mins : {"00", "01", "2"},
     secs : {"00", "30"}, frac : {"", "5", "25", "500"}, unit : {""}]
NumberTokens ==
    [form : {"number"}, negative : BOOLEAN, hours : {""}, mins : {""},
     secs : {"0", "1", "12"}, frac : {"", "5", "25", "500"},
     unit : {"", "s", "ms", "us", "u", "h", "m"}]
DurationTokens == ClockTokens \cup NumberTokens
\* the token as it stands on the command line
TokenText(k) ==
    (IF k.negative THEN "-" ELSE "")
        \o (IF k.hours = "" THEN "" ELSE k.hours \o ":")
        \o (IF k.form = "clock" THEN k.mins \o ":" ELSE "")
        \o k.secs
        \o (IF k.frac = "" THEN "" ELSE "." \o k.frac)
        \o k.unit

DurationInit == InitStore /\ fnArg \in DurationTokens /\ fnRet = NoValue
Extract ==
    /\ fnRet = NoValue
    /\ fnRet' = ExtractDuration(TokenText(fnArg))
    /\ UNCHANGED <<fnArg, sysVars>>
DurationSpec == DurationInit /\ [][Extract]_vars

RECURSIVE Pow10(_)
Pow10(n) == IF n = 0 THEN 1 ELSE 10 * Pow10(n - 1)
\* the units of the time duration syntax, in parts of a second
UnitParts(u) ==
    CASE u \in {"", "s"} -> 1
      [] u = "ms" -> 1000
      [] u = "us" -> 1000000
\* the value the time duration syntax gives the token
Denoted(k) ==
    LET whole == IF k.form = "clock"
                 THEN (IF k.hours = "" THEN 0 ELSE Decimal(k.hours)) * 3600
                          + Decimal(k.mins) * 60 + Decimal(k.secs)
                 ELSE Decimal(k.secs)
        places == Pow10(Len(k.frac))
        q == Seconds(whole * places + Decimal(k.frac), places * UnitParts(k.unit))
    IN  IF k.unit \notin {"", "s", "ms", "us"} THEN NoDuration
        ELSE IF k.negative THEN Negated(q) ELSE q

\* C39: extract_duration gives a token [-]N[.frac][s|ms|us] the value
\* N.frac scaled by its unit and a token [-][H:]MM:SS[.frac] the value
\* H*3600 + MM*60 + SS plus the fraction, negated after "-", the digits
\* after the dot counting as a decimal fraction; a token with another
\* suffix is rejected.
C39_DurationDenoted ==
    fnRet # NoValue => fnRet = Denoted(fnArg)

====
